---- MODULE Spec2Model ----
(***************************************************************************)
(* State-machine model of the SYRP-DGM AI Town simulation engine:          *)
(* the input queue and engine record (convex/aiTown/main.ts, inputs.ts,    *)
(* convex/engine/abstractGame.ts), the Game step (convex/aiTown/game.ts),  *)
(* the World aggregate (convex/aiTown/world.ts) and the Conversation,      *)
(* Player and Agent entities.                                              *)
(*                                                                         *)
(* The specifications share the variables and the operators:               *)
(*   Spec      the deployed engine: sendInput, start, stop, restart and    *)
(*             the scheduled tick mutation, which is split into its        *)
(*             sequential phases (a Convex mutation is a transaction, so   *)
(*             no other mutation interleaves with the phases);             *)
(*   GameSpec  one World object driven through Game.processInput,          *)
(*             World.tick and World.save, populated by World.load.         *)
(* QueueSpec is Spec with the command alphabet cut down to one command    *)
(* and the queue filled before the engine is started, so that the input    *)
(* queue can outgrow one batch of 100.                                     *)
(* AbsentSpec is Spec with the engines and worlds records open to          *)
(* deletion, so that a tick can find a record missing.                     *)
(* ConvSpec, AgentSpec and AllocSpec each take one object on its own, a    *)
(* Conversation, an Agent and a World, through the methods of its class;   *)
(* EntitySpec does so for the movement and sleep of a Player or an Agent.  *)
(* TimeSpec sets the deadlines of a conversation, armed with Date.now(),   *)
(* against the time Game.tick hands to World.tick.  MemorySpec takes the   *)
(* memories table through AgentMemory.createMemory and cleanupMemories,    *)
(* MoodSpec the shouldStartConversation query of an agent.                 *)
(***************************************************************************)
EXTENDS Integers, Sequences, FiniteSets

VARIABLES
  engine,     \* the 'engines' record
  inputs,     \* the 'inputs' table, in creation order
  scheduled,  \* tick invocations handed to ctx.scheduler and not yet run
  worldDoc,   \* the 'worlds' record
  archive,    \* archivedPlayers / archivedAgents / archivedConversations
  messages,   \* the 'messages' table, in creation order
  clock,      \* Date.now()
  world,      \* the in-memory World of the step in progress
  game,       \* Game.engine: the engine record as read at step start
  pc,         \* position of the tick mutation
  batch,      \* the inputs taken by the step (indices into inputs)
  idx,        \* number of commands of the batch already handed to processInput
  results,    \* what processInput returned for each command handled so far
  applied,    \* history: how often each input was handed to processInput
  steps,      \* history: number of steps begun
  conv,       \* a Conversation object used on its own (ConvSpec)
  agentDoc,   \* an Agent object used on its own (AgentSpec)
  calls,      \* history: the calls made on an object used on its own
  present,    \* which of the engines record and the worlds record exist
  entity,     \* a Player or Agent object used on its own (EntitySpec)
  memoryDb    \* the 'memories' and 'memoryEmbeddings' tables (MemorySpec)

vars == <<engine, inputs, scheduled, worldDoc, archive, messages, clock,
          world, game, pc, batch, idx, results, applied, steps, conv, agentDoc,
          calls, present, entity, memoryDb>>

dbVars   == <<worldDoc, archive, messages>>
stepVars == <<world, game, pc, batch, idx, results>>
objVars  == <<conv, agentDoc, calls, present, entity, memoryDb>>
engVars  == <<engine, inputs, scheduled, dbVars, stepVars, applied, steps,
              present, entity, memoryDb>>

----------------------------------------------------------------------------
(* Bounds of the model *)

MaxInputs    == 2      \* inputs ever enqueued under Spec
MaxQueue     == 101    \* inputs ever enqueued under QueueSpec
MaxSteps     == 2      \* steps begun under Spec
MaxTicks     == 1      \* ticks of the World under GameSpec
MaxId        == 3      \* ids the allocator may hand out
MaxMessages  == 2      \* rows of the messages table
MaxScheduled == 2      \* outstanding scheduled ticks
MaxRestarts  == 1      \* runs of the restart mutation
MaxClock     == 1      \* advances of the wall clock
MaxInvited   == 2      \* length of the list handed to Conversation.create
MaxCalls     == 3      \* calls made on an agent after its construction
MaxPeers     == 2      \* other agents an agent keeps a connection with
MaxNextId    == 12     \* counter of the worlds record a World is built from
MaxAllocs    == 12     \* calls of allocId on one World
MaxAborts    == 1      \* ticks that throw for want of a record
MaxWalks     == 1      \* walkTo calls on one entity
MaxWalkTicks == 64     \* ticks counted after a walkTo
Epoch        == 100000 \* Date.now() when the engine is created
MaxWaits     == 1      \* waits between two steps under TimeSpec
MaxTimeSteps == 2      \* engine steps under TimeSpec
MaxMemories  == 3      \* rows of the memories table
MaxCleanups  == 1      \* calls of cleanupMemories
MaxQueries   == 1      \* shouldStartConversation queries on one agent
ClockStep    == 10001  \* granularity of the wall clock (ms)

(* Program constants *)

TICK             == 16     \* abstractGame.ts: TICK
BatchLimit       == 100    \* main.ts tick: .take(100)
SpeakingGrace    == 10000  \* conversation.ts addMessage
InviteTimeout    == 30000  \* conversation.ts acceptInvite / finishSpeaking
MessageTimeout   == 60000  \* conversation.ts addMessage

----------------------------------------------------------------------------
(* Optional values: undefined is <<>>, a present value x is <<x>> *)

None      == <<>>
Some(x)   == <<x>>
IsSome(o) == o # <<>>
Val(o)    == o[1]

(* JavaScript `o || d` on an optional number: undefined and 0 are falsy *)
OrDefault(o, d) == IF IsSome(o) /\ Val(o) # 0 THEN Val(o) ELSE d

(* Number.prototype.toString for a non-negative integer *)
Digit == <<"0", "1", "2", "3", "4", "5", "6", "7", "8", "9">>

RECURSIVE ToString(_)
ToString(n) == IF n < 10 THEN Digit[n + 1]
               ELSE ToString(n \div 10) \o Digit[(n % 10) + 1]

Ids == {ToString(i) : i \in 0..(MaxId - 1)}

(* Array.prototype.filter(p => p # x), includes, and Map helpers *)
Without(s, x)  == SelectSeq(s, LAMBDA p : p # x)
Includes(s, x) == \E i \in 1..Len(s) : s[i] = x
Has(m, k)      == k \in DOMAIN m
MapSet(m, k, v) == [x \in (DOMAIN m) \cup {k} |-> IF x = k THEN v ELSE m[x]]
MapDel(m, k)    == [x \in (DOMAIN m) \ {k} |-> m[x]]
EmptyMap       == [x \in {} |-> None]

----------------------------------------------------------------------------
(* Conversation (convex/aiTown/conversation.ts).  t is Date.now(). *)

ConversationCreate(id, creator, invited, t) ==
  [id |-> id, creator |-> creator, created |-> t, ended |-> None,
   lastMessage |-> None, numMessages |-> 0,
   participants |-> <<creator>>,
   invited |-> Without(invited, creator),
   status |-> IF Len(invited) > 1 THEN "waiting" ELSE "active",
   currentSpeaker |-> None, speakingUntil |-> None,
   inactivityTimeout |-> None]

(* Conversation.archive: the in-memory part; the save is in Archive *)
ConversationArchive(c, t) == [c EXCEPT !.status = "ended", !.ended = Some(t)]

AcceptInviteThrows(c, playerId) == ~Includes(c.invited, playerId)

(* acceptInvite that activates whatever the status is *)
AcceptInviteReopens(c, playerId, t) ==
  LET inv == Without(c.invited, playerId)
      c1  == [c EXCEPT !.invited = inv,
                       !.participants = Append(c.participants, playerId)]
  IN  IF Len(inv) = 0
      THEN [c1 EXCEPT !.status = "active",
                      !.inactivityTimeout = Some(t + InviteTimeout)]
      ELSE c1

(* acceptInvite that leaves the player in the invited list *)
AcceptInviteKeepsInvited(c, playerId, t) ==
  LET c1 == [c EXCEPT !.participants = Append(c.participants, playerId)]
  IN  IF Len(c.invited) = 0 /\ c.status = "waiting"
      THEN [c1 EXCEPT !.status = "active",
                      !.inactivityTimeout = Some(t + InviteTimeout)]
      ELSE c1

AcceptInvite(c, playerId, t) ==
  LET inv == Without(c.invited, playerId)
      c1  == [c EXCEPT !.invited = inv,
                       !.participants = Append(c.participants, playerId)]
  IN  IF Len(inv) = 0 /\ c.status = "waiting"
      THEN [c1 EXCEPT !.status = "active",
                      !.inactivityTimeout = Some(t + InviteTimeout)]
      ELSE c1

RejectInviteThrows(c, playerId) == ~Includes(c.invited, playerId)

RejectInvite(c, playerId, t) ==
  LET inv == Without(c.invited, playerId)
      c1  == [c EXCEPT !.invited = inv]
  IN  IF Len(inv) = 0 /\ Len(c.participants) = 1
      THEN [c1 EXCEPT !.status = "ended", !.ended = Some(t)]
      ELSE c1

(* addMessage without its check of the speaking turn *)
AddMessageErrorNoTurn(c, author) ==
  IF ~Includes(c.participants, author) THEN "not a participant"
  ELSE IF c.status # "active" THEN "Conversation is not active"
  ELSE ""

(* The error addMessage throws, or "" when it accepts the message *)
AddMessageError(c, author) ==
  IF ~Includes(c.participants, author) THEN "not a participant"
  ELSE IF c.status # "active" THEN "Conversation is not active"
  ELSE IF IsSome(c.currentSpeaker) /\ Val(c.currentSpeaker) # author
       THEN "not your turn to speak"
  ELSE ""

AddMessage(c, author, t) ==
  [c EXCEPT !.lastMessage = Some([author |-> author, timestamp |-> t]),
            !.numMessages = c.numMessages + 1,
            !.currentSpeaker = Some(author),
            !.speakingUntil = Some(t + SpeakingGrace),
            !.inactivityTimeout = Some(t + MessageTimeout)]

FinishSpeakingThrows(c, playerId) == c.currentSpeaker # Some(playerId)

FinishSpeaking(c, playerId, t) ==
  [c EXCEPT !.currentSpeaker = None, !.speakingUntil = None,
            !.inactivityTimeout = Some(t + InviteTimeout)]

(* leave that forgets to give up the speaking turn of the leaver *)
LeaveKeepsSpeaker(c, playerId, t) ==
  LET parts == Without(c.participants, playerId)
      c1 == [c EXCEPT !.participants = parts,
                      !.invited = Without(c.invited, playerId)]
  IN  IF Len(parts) = 0 \/ Len(parts) = 1
      THEN [c1 EXCEPT !.status = "ended", !.ended = Some(t)]
      ELSE c1

Leave(c, playerId, t) ==
  LET parts == Without(c.participants, playerId)
      c1 == [c EXCEPT !.participants = parts,
                      !.invited = Without(c.invited, playerId)]
      c2 == IF c1.currentSpeaker = Some(playerId)
            THEN [c1 EXCEPT !.currentSpeaker = None, !.speakingUntil = None]
            ELSE c1
  IN  IF Len(parts) = 0 \/ Len(parts) = 1
      THEN [c2 EXCEPT !.status = "ended", !.ended = Some(t)]
      ELSE c2

(* Conversation.tick; `x && now > x` is false for undefined and for 0 *)
Elapsed(o, now) == IsSome(o) /\ Val(o) # 0 /\ now > Val(o)

ConversationTick(c, now) ==
  IF c.status # "active" THEN c
  ELSE LET c1 == IF Elapsed(c.speakingUntil, now)
                 THEN [c EXCEPT !.currentSpeaker = None, !.speakingUntil = None]
                 ELSE c
       IN  IF Elapsed(c1.inactivityTimeout, now)
           THEN [c1 EXCEPT !.status = "ended", !.ended = Some(now)]
           ELSE c1

IsFinished(c) == c.status = "ended"

----------------------------------------------------------------------------
(* Player (convex/aiTown/player.ts) and Agent (convex/aiTown/agent.ts).   *)
(* Energy is kept in hundredths so that the +0.1 of a tick is exact.      *)

EnergyThreshold == 3000   \* agent.ts shouldSleep: energyThreshold = 30
EnergyMax       == 10000  \* agent.ts: Math.min(100, ...)
InitialEnergy   == 8000   \* agent.ts Agent.create: energy 80.0
SleepBoost      == 2000   \* agent.ts goToSleep: energy + 20
TickEnergy      == 10     \* agent.ts tick: energy + 0.1
SleepDuration   == 28800000  \* agent.ts goToSleep: 8 * 60 * 60 * 1000
AwakeLimit      == 57600000  \* agent.ts shouldSleep: 16 hours in ms

PlayerCreate(id, t) ==
  [id |-> id, conversationId |-> None, status |-> "idle"]

PlayerTick(p, now) == p

AgentCreate(id, t) ==
  [id |-> id, conversationId |-> None, status |-> "idle",
   energy |-> InitialEnergy, lastWakeUp |-> t, sleepUntil |-> None]

ShouldSleep(a, now) ==
  a.energy < EnergyThreshold \/ (now - a.lastWakeUp) > AwakeLimit

GoToSleep(a, t) ==
  [a EXCEPT !.status = "sleeping", !.sleepUntil = Some(t + SleepDuration),
            !.energy = IF a.energy + SleepBoost > EnergyMax THEN EnergyMax
                       ELSE a.energy + SleepBoost]

WakeUp(a, t) ==
  [a EXCEPT !.status = "idle", !.sleepUntil = None, !.lastWakeUp = t,
            !.energy = EnergyMax]

AgentLeaveConversation(a) ==
  [a EXCEPT !.conversationId = None, !.status = "idle"]

(* Agent.tick: now is the argument, t is Date.now() *)
AgentTick(a, now, t) ==
  LET stillAsleep == a.status = "sleeping"
                     /\ ~(IsSome(a.sleepUntil) /\ Val(a.sleepUntil) # 0
                          /\ now >= Val(a.sleepUntil))
      a1 == IF a.status = "sleeping" /\ ~stillAsleep THEN WakeUp(a, t) ELSE a
  IN  IF stillAsleep THEN a
      ELSE IF ShouldSleep(a1, now) THEN GoToSleep(a1, t)
      ELSE [a1 EXCEPT !.energy = IF a1.energy + TickEnergy > EnergyMax
                                  THEN EnergyMax ELSE a1.energy + TickEnergy]

----------------------------------------------------------------------------
(* World (convex/aiTown/world.ts).  The operations act on a context        *)
(*   st = [w: the World object, ar: the archived* tables,                  *)
(*         msgs: the messages table, eng: the engines record].             *)

NewWorld(doc) ==
  [nextId |-> doc.nextId, lastViewed |-> doc.lastViewed,
   players |-> EmptyMap, agents |-> EmptyMap, conversations |-> EmptyMap]

Serialize(w) == [nextId |-> w.nextId, lastViewed |-> w.lastViewed]

EmptyArchive == [players |-> EmptyMap, agents |-> EmptyMap,
                 conversations |-> EmptyMap]

(* World.load: every archived document becomes a live entity *)
WorldLoad(w, ar) ==
  [w EXCEPT !.players = ar.players, !.agents = ar.agents,
            !.conversations = ar.conversations]

(* World.save: upsert of every live entity by (worldId, id) *)
Upsert(table, live) ==
  [k \in (DOMAIN table) \cup (DOMAIN live) |->
     IF k \in DOMAIN live THEN live[k] ELSE table[k]]

WorldSave(w, ar) ==
  [players |-> Upsert(ar.players, w.players),
   agents |-> Upsert(ar.agents, w.agents),
   conversations |-> Upsert(ar.conversations, w.conversations)]

(* this.players.get(id) || this.agents.get(id) *)
Known(w, id) == Has(w.players, id) \/ Has(w.agents, id)

Participant(w, id) == IF Has(w.players, id) THEN w.players[id] ELSE w.agents[id]

SetConversationId(w, id, v) ==
  IF Has(w.players, id) THEN [w EXCEPT !.players[id].conversationId = v]
  ELSE IF Has(w.agents, id) THEN [w EXCEPT !.agents[id].conversationId = v]
  ELSE w

\* An allocator that keeps only the last digit of the counter.
AllocIdLastDigit(w) == Digit[(w.nextId % 10) + 1]

AllocId(w) == ToString(w.nextId)

\* this.nextId++
Allocated(w) == [w EXCEPT !.nextId = @ + 1]

AddPlayer(st, t) ==
  LET id == AllocId(st.w)
  IN  [st EXCEPT !.w.nextId = @ + 1,
                 !.w.players = MapSet(@, id, PlayerCreate(id, t))]

\* A removePlayer that looks the id up as startConversation does, among the
\* players and then among the agents.
RemovePlayerOrAgent(st, playerId, t) ==
  IF Has(st.w.players, playerId)
  THEN [st EXCEPT !.w.players = MapDel(@, playerId),
                  !.ar.players = MapSet(@, playerId, st.w.players[playerId])]
  ELSE IF Has(st.w.agents, playerId)
  THEN [st EXCEPT !.w.agents = MapDel(@, playerId)]
  ELSE st

RemovePlayer(st, playerId, t) ==
  IF ~Has(st.w.players, playerId) THEN st
  ELSE LET p   == st.w.players[playerId]
           inC == IsSome(p.conversationId)
                  /\ Has(st.w.conversations, Val(p.conversationId))
           cs  == IF inC
                  THEN [st.w.conversations EXCEPT
                          ![Val(p.conversationId)] = Leave(@, playerId, t)]
                  ELSE st.w.conversations
       IN  [st EXCEPT !.w.conversations = cs,
                      !.w.players = MapDel(@, playerId),
                      !.ar.players = MapSet(@, playerId, p)]

StartConversationError(w, creatorId, inviteeId) ==
  IF ~Known(w, creatorId) \/ ~Known(w, inviteeId)
  THEN "One or both participants not found"
  ELSE IF IsSome(Participant(w, creatorId).conversationId)
          \/ IsSome(Participant(w, inviteeId).conversationId)
  THEN "One or both participants are already in a conversation"
  ELSE ""

StartConversation(st, creatorId, inviteeId, t) ==
  LET cid == AllocId(st.w)
      c   == ConversationCreate(cid, creatorId, <<creatorId, inviteeId>>, t)
      w1  == [st.w EXCEPT !.nextId = @ + 1,
                          !.conversations = MapSet(@, cid, c)]
      w2  == SetConversationId(w1, creatorId, Some(cid))
      w3  == SetConversationId(w2, inviteeId, Some(cid))
  IN  [st EXCEPT !.w = w3]

RECURSIVE ClearParticipants(_, _)
ClearParticipants(w, parts) ==
  IF Len(parts) = 0 THEN w
  ELSE ClearParticipants(SetConversationId(w, Head(parts), None), Tail(parts))

\* An endConversation that archives the conversation and leaves it in the
\* live map.
EndConversationKeepsLive(st, cid, t) ==
  IF ~Has(st.w.conversations, cid) THEN st
  ELSE LET c == st.w.conversations[cid]
       IN  [st EXCEPT !.w = ClearParticipants(st.w, c.participants),
                      !.ar.conversations =
                          MapSet(@, cid, ConversationArchive(c, t))]

EndConversation(st, cid, t) ==
  IF ~Has(st.w.conversations, cid) THEN st
  ELSE LET c  == st.w.conversations[cid]
           w1 == ClearParticipants(st.w, c.participants)
       IN  [st EXCEPT !.w = [w1 EXCEPT !.conversations = MapDel(@, cid)],
                      !.ar.conversations =
                          MapSet(@, cid, ConversationArchive(c, t))]

(* The loop of World.tick over the conversations.  An iteration touches   *)
(* its own conversation and the conversationId of that conversation's     *)
(* participants only, so the order of the iterations does not matter.     *)
RECURSIVE TickConversations(_, _, _, _)
TickConversations(st, todo, now, t) ==
  IF todo = {} THEN st
  ELSE LET cid == CHOOSE x \in todo : TRUE
           st1 == [st EXCEPT !.w.conversations[cid] = ConversationTick(@, now)]
           st2 == IF IsFinished(st1.w.conversations[cid])
                  THEN EndConversation(st1, cid, t) ELSE st1
       IN  TickConversations(st2, todo \ {cid}, now, t)

WorldTick(st, now, t) ==
  LET st1 == [st EXCEPT
                !.w.players = [k \in DOMAIN @ |-> PlayerTick(@[k], now)],
                !.w.agents  = [k \in DOMAIN @ |-> AgentTick(@[k], now, t)]]
      st2 == TickConversations(st1, DOMAIN st1.w.conversations, now, t)
  IN  [st2 EXCEPT !.w.lastViewed = now]

WorldRestart(st, t) ==
  [st EXCEPT !.w = [nextId |-> 0, lastViewed |-> t, players |-> EmptyMap,
                    agents |-> EmptyMap, conversations |-> EmptyMap],
             !.ar = EmptyArchive]

----------------------------------------------------------------------------
(* Game (convex/aiTown/game.ts) and AbstractGame (engine/abstractGame.ts). *)
(* Of the arguments of a command the model keeps the ids and the flag;     *)
(* the free-text arguments (text, messageUuid, character, description)     *)
(* reach no state the model keeps.                                         *)

Required ==
  [join |-> {"name"}, leave |-> {"playerId"}, sendMessage |-> {"playerId"},
   startConversation |-> {"playerId", "invitee"},
   acceptInvite |-> {"playerId", "conversationId"},
   rejectInvite |-> {"playerId", "conversationId"},
   leaveConversation |-> {"playerId", "conversationId"},
   finishSpeaking |-> {"playerId", "conversationId"},
   agentSendMessage |-> {"agentId"}, agentWakeUp |-> {"agentId"},
   stop |-> {}, start |-> {}, restart |-> {}]

Optional(name) == IF name = "agentSendMessage" THEN {"leaveConversation"} ELSE {}

(* AbstractGame.validateInput: a validator exists and its parse accepts   *)
(* the args.  The validators come from convex/values, which is not part   *)
(* of the sources; parse is taken to accept exactly the objects that have *)
(* the fields of the schema, the optional ones being free.                *)
ValidateInput(cmd) ==
  /\ cmd.name \in DOMAIN Required
  /\ Required[cmd.name] \subseteq DOMAIN cmd.args
  /\ (DOMAIN cmd.args) \subseteq (Required[cmd.name] \cup Optional(cmd.name))

Threw(st, msg) == [success |-> FALSE, st |-> st, result |-> None, error |-> msg]
Returned(st, r) == [success |-> TRUE, st |-> st, result |-> Some(r), error |-> ""]

HandleJoin(st, args, t) ==
  Returned(AddPlayer(st, t), <<"joined", AllocId(st.w)>>)

HandleLeave(st, args, t) ==
  Returned(RemovePlayer(st, args.playerId, t), <<"left", args.playerId>>)

HandleSendMessage(st, args, t) ==
  IF ~Has(st.w.players, args.playerId) THEN Threw(st, "Player not found")
  ELSE LET player == st.w.players[args.playerId]
       IN  IF ~IsSome(player.conversationId)
           THEN Threw(st, "Player is not in a conversation")
           ELSE LET cid == Val(player.conversationId)
                IN  IF ~Has(st.w.conversations, cid)
                    THEN Threw(st, "Conversation not found")
                    ELSE LET c == st.w.conversations[cid]
                             e == AddMessageError(c, args.playerId)
                         IN  IF e # "" THEN Threw(st, e)
                             ELSE Returned(
                               [st EXCEPT
                                  !.msgs = Append(@, [conversationId |-> cid,
                                                     author |-> args.playerId]),
                                  !.w.conversations[cid] =
                                      AddMessage(c, args.playerId, t)],
                               <<"messageSent", args.playerId>>)

HandleStartConversation(st, args, t) ==
  LET e == StartConversationError(st.w, args.playerId, args.invitee)
  IN  IF e # "" THEN Threw(st, e)
      ELSE Returned(StartConversation(st, args.playerId, args.invitee, t),
                    <<"started", AllocId(st.w)>>)

HandleAcceptInvite(st, args, t) ==
  IF ~Has(st.w.conversations, args.conversationId)
  THEN Threw(st, "Conversation not found")
  ELSE IF AcceptInviteThrows(st.w.conversations[args.conversationId], args.playerId)
  THEN Threw(st, "Player was not invited to this conversation")
  ELSE Returned([st EXCEPT !.w.conversations[args.conversationId] =
                              AcceptInvite(@, args.playerId, t)],
                <<"accepted", args.conversationId>>)

HandleRejectInvite(st, args, t) ==
  IF ~Has(st.w.conversations, args.conversationId)
  THEN Threw(st, "Conversation not found")
  ELSE IF RejectInviteThrows(st.w.conversations[args.conversationId], args.playerId)
  THEN Threw(st, "Player was not invited to this conversation")
  ELSE Returned([st EXCEPT !.w.conversations[args.conversationId] =
                              RejectInvite(@, args.playerId, t)],
                <<"rejected", args.conversationId>>)

HandleLeaveConversation(st, args, t) ==
  IF ~Has(st.w.conversations, args.conversationId)
  THEN Threw(st, "Conversation not found")
  ELSE Returned([st EXCEPT !.w.conversations[args.conversationId] =
                              Leave(@, args.playerId, t)],
                <<"left", args.conversationId>>)

HandleFinishSpeaking(st, args, t) ==
  IF ~Has(st.w.conversations, args.conversationId)
  THEN Threw(st, "Conversation not found")
  ELSE IF FinishSpeakingThrows(st.w.conversations[args.conversationId], args.playerId)
  THEN Threw(st, "Player is not the current speaker")
  ELSE Returned([st EXCEPT !.w.conversations[args.conversationId] =
                              FinishSpeaking(@, args.playerId, t)],
                <<"finished", args.conversationId>>)

(* Game.handleAgentSendMessage with Agent.sendMessage *)
HandleAgentSendMessage(st, args, t) ==
  IF ~Has(st.w.agents, args.agentId) THEN Threw(st, "Agent not found")
  ELSE LET agent == st.w.agents[args.agentId]
           leave == "leaveConversation" \in DOMAIN args /\ args.leaveConversation
       IN  IF ~IsSome(agent.conversationId)
           THEN Threw(st, "Agent is not in a conversation")
           ELSE Returned(
                  [st EXCEPT
                     !.msgs = Append(@, [conversationId |-> Val(agent.conversationId),
                                        author |-> args.agentId]),
                     !.w.agents[args.agentId] =
                         IF leave THEN AgentLeaveConversation(@) ELSE @],
                  <<"messageSent", args.agentId>>)

HandleAgentWakeUp(st, args, t) ==
  IF ~Has(st.w.agents, args.agentId) THEN Threw(st, "Agent not found")
  ELSE Returned([st EXCEPT !.w.agents[args.agentId] = WakeUp(@, t)],
                <<"awake", args.agentId>>)

(* AbstractGame.stop / start: db.patch of the running flag *)
GameStop(st)  == [st EXCEPT !.eng.running = FALSE]
GameStart(st) == [st EXCEPT !.eng.running = TRUE]

(* AbstractGame.nextGeneration reads Game.engine, the record of step start *)
NextGeneration(g) == g.generationNumber + 1

(* Game.restart: world.restart then incrementGeneration *)
GameRestart(st, g, t) ==
  [WorldRestart(st, t) EXCEPT !.eng.generationNumber = NextGeneration(g)]

(* Game.handleInput; g is Game.engine *)
HandleInput(st, cmd, g, t) ==
  CASE cmd.name = "join" -> HandleJoin(st, cmd.args, t)
    [] cmd.name = "leave" -> HandleLeave(st, cmd.args, t)
    [] cmd.name = "sendMessage" -> HandleSendMessage(st, cmd.args, t)
    [] cmd.name = "startConversation" -> HandleStartConversation(st, cmd.args, t)
    [] cmd.name = "acceptInvite" -> HandleAcceptInvite(st, cmd.args, t)
    [] cmd.name = "rejectInvite" -> HandleRejectInvite(st, cmd.args, t)
    [] cmd.name = "leaveConversation" -> HandleLeaveConversation(st, cmd.args, t)
    [] cmd.name = "finishSpeaking" -> HandleFinishSpeaking(st, cmd.args, t)
    [] cmd.name = "agentSendMessage" -> HandleAgentSendMessage(st, cmd.args, t)
    [] cmd.name = "agentWakeUp" -> HandleAgentWakeUp(st, cmd.args, t)
    [] cmd.name = "stop" -> Returned(GameStop(st), <<"stopped", "">>)
    [] cmd.name = "start" -> Returned(GameStart(st), <<"started", "">>)
    [] cmd.name = "restart" -> Returned(GameRestart(st, g, t), <<"restarted", "">>)
    [] OTHER -> Threw(st, "Unknown input")

(* AbstractGame.processInput: validation, then the handler; every error is *)
(* caught and returned                                                     *)
ProcessInput(st, cmd, g, t) ==
  IF ~ValidateInput(cmd) THEN Threw(st, "Input validation failed")
  ELSE HandleInput(st, cmd, g, t)

(* AbstractGame.now *)
Now(g) == OrDefault(g.currentTime, 0)

----------------------------------------------------------------------------
(* The state after the init mutation (main.ts init); no Conversation and  *)
(* no agent document has been picked for the trust mutations yet         *)

Init ==
  /\ engine = [running |-> FALSE, generationNumber |-> 0,
               currentTime |-> Some(0), lastStepTs |-> None,
               processedInputNumber |-> None]
  /\ inputs = <<>>
  /\ scheduled = 0
  /\ worldDoc = [nextId |-> 0, lastViewed |-> Epoch]
  /\ archive = EmptyArchive
  /\ messages = <<>>
  /\ clock = Epoch
  /\ world = NewWorld([nextId |-> 0, lastViewed |-> Epoch])
  /\ game = engine
  /\ pc = "idle"
  /\ batch = <<>>
  /\ idx = 0
  /\ results = <<>>
  /\ applied = <<>>
  /\ steps = 0
  /\ conv = None
  /\ agentDoc = None
  /\ calls = <<>>
  /\ present = [engine |-> TRUE, world |-> TRUE]
  /\ entity = None
  /\ memoryDb = [memories |-> <<>>, embeddings |-> {}, nextEmbedding |-> 0]

(* Date.now() moves on between two mutations *)
AdvanceClock ==
  /\ pc = "idle"
  /\ clock < Epoch + MaxClock * ClockStep
  /\ clock' = clock + ClockStep
  /\ UNCHANGED <<objVars, engine, inputs, scheduled, dbVars, stepVars, applied, steps>>

----------------------------------------------------------------------------
(* inputs.ts sendInput *)

(* .order('desc').first() on the index [engineId, number]: the number of  *)
(* the input with the largest number, undefined when there is no input    *)
LastInputNumber(q) ==
  IF Len(q) = 0 THEN None
  ELSE Some(CHOOSE n \in {q[i].number : i \in 1..Len(q)} :
              \A i \in 1..Len(q) : q[i].number <= n)

InputNumber(q) == OrDefault(LastInputNumber(q), -1) + 1

SendInputTo(cmd, limit) ==
  /\ pc = "idle"
  /\ Len(inputs) < limit
  /\ inputs' = Append(inputs, [number |-> InputNumber(inputs), name |-> cmd.name,
                               args |-> cmd.args, returnValue |-> None])
  /\ applied' = Append(applied, 0)
  /\ UNCHANGED <<objVars, engine, scheduled, dbVars, clock, stepVars, steps>>

(* main.ts start, stop, restart *)
Start ==
  /\ pc = "idle"
  /\ scheduled < MaxScheduled
  /\ engine' = [engine EXCEPT !.running = TRUE]
  /\ scheduled' = scheduled + 1
  /\ UNCHANGED <<objVars, inputs, dbVars, clock, stepVars, applied, steps>>

Stop ==
  /\ pc = "idle"
  /\ engine.running
  /\ engine' = [engine EXCEPT !.running = FALSE]
  /\ UNCHANGED <<objVars, inputs, scheduled, dbVars, clock, stepVars, applied, steps>>

(* The world.restart of this mutation acts on a World object that is      *)
(* dropped without a save: of its effects only the deletions remain.      *)
Restart ==
  /\ pc = "idle"
  /\ engine.generationNumber < MaxRestarts
  /\ engine' = [engine EXCEPT !.running = FALSE, !.currentTime = Some(0),
                              !.lastStepTs = None,
                              !.processedInputNumber = None,
                              !.generationNumber = @ + 1]
  /\ archive' = EmptyArchive
  /\ UNCHANGED <<objVars, inputs, scheduled, worldDoc, messages, clock, stepVars,
                 applied, steps>>

----------------------------------------------------------------------------
(* main.ts tick, in its sequential phases *)

(* .gt('number', lastProcessed).order('asc').take(100): the indices of    *)
(* the selected inputs, by number and then by creation                    *)
Pending(q, lastProcessed) == {i \in 1..Len(q) : q[i].number > lastProcessed}

Before(q, i, j) == q[i].number < q[j].number \/ (q[i].number = q[j].number /\ i < j)

Take(q, P, n) ==
  LET rank(i) == Cardinality({j \in P : Before(q, j, i)}) + 1
      m == IF Cardinality(P) < n THEN Cardinality(P) ELSE n
  IN  [r \in 1..m |-> CHOOSE i \in P : rank(i) = r]

LastProcessed(e) == OrDefault(e.processedInputNumber, -1)

TickSkipped ==
  /\ pc = "idle"
  /\ scheduled > 0
  /\ ~engine.running
  /\ scheduled' = scheduled - 1
  /\ UNCHANGED <<objVars, engine, inputs, dbVars, clock, stepVars, applied, steps>>

TickBegin ==
  /\ pc = "idle"
  /\ scheduled > 0
  /\ engine.running
  /\ steps < MaxSteps
  /\ scheduled' = scheduled - 1
  /\ batch' = Take(inputs, Pending(inputs, LastProcessed(engine)), BatchLimit)
  /\ world' = NewWorld(worldDoc)
  /\ game' = engine
  /\ idx' = 0
  /\ results' = <<>>
  /\ pc' = "inputs"
  /\ steps' = steps + 1
  /\ UNCHANGED <<objVars, engine, inputs, dbVars, clock, applied>>

Context == [w |-> world, ar |-> archive, msgs |-> messages, eng |-> engine]

(* A loop that gives up at the first command that fails *)
TickInputStopsOnError ==
  /\ pc = "inputs"
  /\ idx < Len(batch)
  /\ LET i   == batch[idx + 1]
         cmd == [name |-> inputs[i].name, args |-> inputs[i].args]
         r   == ProcessInput(Context, cmd, game, clock)
     IN  /\ world' = r.st.w
         /\ archive' = r.st.ar
         /\ messages' = r.st.msgs
         /\ engine' = r.st.eng
         /\ results' = Append(results, [input |-> i, success |-> r.success,
                                        result |-> r.result, error |-> r.error])
         /\ applied' = [applied EXCEPT ![i] = @ + 1]
         /\ pc' = IF r.success THEN "inputs" ELSE "finish"
  /\ idx' = idx + 1
  /\ UNCHANGED <<objVars, inputs, scheduled, worldDoc, clock, game, batch, steps>>

(* A loop that ends as soon as a command has cleared the running flag *)
TickInputStopsWhenStopped ==
  /\ pc = "inputs"
  /\ idx < Len(batch)
  /\ LET i   == batch[idx + 1]
         cmd == [name |-> inputs[i].name, args |-> inputs[i].args]
         r   == ProcessInput(Context, cmd, game, clock)
     IN  /\ world' = r.st.w
         /\ archive' = r.st.ar
         /\ messages' = r.st.msgs
         /\ engine' = r.st.eng
         /\ results' = Append(results, [input |-> i, success |-> r.success,
                                        result |-> r.result, error |-> r.error])
         /\ applied' = [applied EXCEPT ![i] = @ + 1]
         /\ pc' = IF r.st.eng.running THEN "inputs" ELSE "finish"
  /\ idx' = idx + 1
  /\ UNCHANGED <<objVars, inputs, scheduled, worldDoc, clock, game, batch, steps>>

(* One iteration of the loop of Game.tick *)
TickInput ==
  /\ pc = "inputs"
  /\ idx < Len(batch)
  /\ LET i   == batch[idx + 1]
         cmd == [name |-> inputs[i].name, args |-> inputs[i].args]
         r   == ProcessInput(Context, cmd, game, clock)
     IN  /\ world' = r.st.w
         /\ archive' = r.st.ar
         /\ messages' = r.st.msgs
         /\ engine' = r.st.eng
         /\ results' = Append(results, [input |-> i, success |-> r.success,
                                        result |-> r.result, error |-> r.error])
         /\ applied' = [applied EXCEPT ![i] = @ + 1]
  /\ idx' = idx + 1
  /\ UNCHANGED <<objVars, inputs, scheduled, worldDoc, clock, game, pc, batch, steps>>

(* The rest of Game.tick: world.tick, Game.save, updateTiming *)
TickWorld ==
  /\ pc = "inputs"
  /\ idx = Len(batch)
  /\ LET st == WorldTick(Context, Now(game), clock)
     IN  /\ world' = st.w
         /\ archive' = st.ar
         /\ messages' = st.msgs
         /\ worldDoc' = Serialize(st.w)
         /\ engine' = [st.eng EXCEPT !.lastStepTs = Some(clock),
                                     !.currentTime = Some(Now(game) + TICK)]
  /\ pc' = "finish"
  /\ UNCHANGED <<objVars, inputs, scheduled, clock, game, batch, idx, results,
                 applied, steps>>

(* Game.tick's return value: the results of the successful commands *)
Outputs(rs) == SelectSeq(rs, LAMBDA r : r.success /\ IsSome(r.result))

(* The end of the mutation: watermark, return values, next tick *)
TickFinish ==
  /\ pc = "finish"
  /\ LET inBatch == {batch[k] : k \in 1..Len(batch)}
         value   == [k \in 1..Len(Outputs(results)) |-> Val(Outputs(results)[k].result)]
         eng1    == IF Len(batch) > 0
                    THEN [engine EXCEPT !.processedInputNumber =
                                           Some(inputs[batch[Len(batch)]].number)]
                    ELSE engine
     IN  /\ engine' = eng1
         /\ inputs' = [i \in 1..Len(inputs) |->
                         IF i \in inBatch
                         THEN [inputs[i] EXCEPT !.returnValue =
                                 Some([kind |-> "ok", value |-> value])]
                         ELSE inputs[i]]
         /\ scheduled' = IF eng1.running THEN scheduled + 1 ELSE scheduled
  /\ pc' = "idle"
  /\ UNCHANGED <<objVars, dbVars, clock, world, game, batch, idx, results, applied, steps>>

----------------------------------------------------------------------------
(* Spec: the deployed engine.  The clients send commands of this alphabet *)

Cmd(name, args) == [name |-> name, args |-> args]

EngineCommands ==
  { Cmd("join", [name |-> "p"]),
    Cmd("sendMessage", [playerId |-> "0"]),
    Cmd("leave", <<>>),
    Cmd("stop", <<>>),
    Cmd("start", <<>>),
    Cmd("restart", <<>>) }

SendInput == \E cmd \in EngineCommands : SendInputTo(cmd, MaxInputs)

Next ==
  \/ SendInput
  \/ Start
  \/ Stop
  \/ Restart
  \/ TickSkipped
  \/ TickBegin
  \/ TickInput
  \/ TickWorld
  \/ TickFinish
  \/ AdvanceClock

Spec == Init /\ [][Next]_vars

----------------------------------------------------------------------------
(* GameSpec: one World object at a time, built from the worlds record and  *)
(* populated by World.load, driven by Game.processInput and World.tick and *)
(* persisted by World.save.  Agents enter the archive through createAgent. *)

(* agents.ts createAgent *)
CreateAgent ==
  /\ pc = "idle"
  /\ worldDoc.nextId < MaxId
  /\ LET agentId == ToString(worldDoc.nextId)
     IN  /\ worldDoc' = [worldDoc EXCEPT !.nextId = @ + 1]
         /\ archive' = [archive EXCEPT
                          !.agents = MapSet(@, agentId, AgentCreate(agentId, clock))]
  /\ UNCHANGED <<objVars, engine, inputs, scheduled, messages, clock, stepVars,
                 applied, steps>>

(* new World(worldDoc), world.load(db), new Game(engine, engineId, world) *)
LoadWorld ==
  /\ pc = "idle"
  /\ world' = WorldLoad(NewWorld(worldDoc), archive)
  /\ game' = engine
  /\ pc' = "inputs"
  /\ UNCHANGED <<objVars, engine, inputs, scheduled, dbVars, clock, batch, idx,
                 results, applied, steps>>

(* The commands that act on the World; stop and start only patch the      *)
(* running flag of the engines record, which no World operation reads.    *)
GameCommands ==
  {Cmd("join", [name |-> "p"]), Cmd("join", <<>>), Cmd("dance", <<>>),
   Cmd("restart", <<>>)}
  \cup {Cmd(n, [playerId |-> p]) : n \in {"leave", "sendMessage"}, p \in Ids}
  \cup {Cmd("startConversation", [playerId |-> p, invitee |-> q]) :
          p \in Ids, q \in Ids}
  \cup {Cmd(n, [playerId |-> p, conversationId |-> c]) :
          n \in {"acceptInvite", "rejectInvite", "leaveConversation",
                 "finishSpeaking"}, p \in Ids, c \in Ids}
  \cup {Cmd("agentSendMessage", [agentId |-> a, leaveConversation |-> b]) :
          a \in Ids, b \in BOOLEAN}
  \cup {Cmd("agentWakeUp", [agentId |-> a]) : a \in Ids}

(* Game.processInput on the live World *)
Command ==
  /\ pc = "inputs"
  /\ \E cmd \in GameCommands :
       LET r == ProcessInput(Context, cmd, game, clock)
       IN  /\ r.st.w.nextId <= MaxId
           /\ Len(r.st.msgs) <= MaxMessages
           /\ r.st.eng.generationNumber <= MaxRestarts
           /\ r.st # Context
           /\ world' = r.st.w
           /\ archive' = r.st.ar
           /\ messages' = r.st.msgs
           /\ engine' = r.st.eng
  /\ UNCHANGED <<objVars, inputs, scheduled, worldDoc, clock, game, pc, batch, idx,
                 results, applied, steps>>

(* The now handed to World.tick: Game.tick passes Game.now(); a caller    *)
(* that follows Date.now(), the clock the deadlines are armed with, passes *)
(* a value that has moved on since the last command                        *)
NowValues ==
  {Now(game), clock + SpeakingGrace + 1, clock + MessageTimeout + 1}

(* Game.tick after its loop: world.tick, Game.save, updateTiming *)
GameTick ==
  /\ pc = "inputs"
  /\ steps < MaxTicks
  /\ \E now \in NowValues :
       LET st == WorldTick(Context, now, clock)
       IN  /\ world' = st.w
           /\ archive' = st.ar
           /\ messages' = st.msgs
           /\ worldDoc' = Serialize(st.w)
           /\ engine' = [st.eng EXCEPT !.lastStepTs = Some(clock),
                                       !.currentTime = Some(Now(game) + TICK)]
  /\ steps' = steps + 1
  /\ UNCHANGED <<objVars, inputs, scheduled, clock, game, pc, batch, idx, results,
                 applied>>

(* World.save, which ends the use of the object *)
SaveWorld ==
  /\ pc = "inputs"
  /\ archive' = WorldSave(world, archive)
  /\ pc' = "saved"
  /\ UNCHANGED <<objVars, engine, inputs, scheduled, worldDoc, messages, clock, world,
                 game, batch, idx, results, applied, steps>>

GameNext ==
  \/ CreateAgent
  \/ LoadWorld
  \/ Command
  \/ GameTick
  \/ SaveWorld

GameSpec == Init /\ [][GameNext]_vars

----------------------------------------------------------------------------
(* QueueSpec: the engine with clients that fill the queue before the       *)
(* engine is started, all with one command, a leave of a player that does  *)
(* not exist (a no-op), so that the queue can hold more inputs than one    *)
(* batch takes.                                                            *)

QueueCommand == Cmd("leave", [playerId |-> "0"])

SendQueueInput ==
  /\ ~engine.running
  /\ SendInputTo(QueueCommand, MaxQueue)

QueueNext ==
  \/ SendQueueInput
  \/ Start
  \/ TickBegin
  \/ TickInput
  \/ TickWorld
  \/ TickFinish

QueueSpec == Init /\ [][QueueNext]_vars

----------------------------------------------------------------------------
(* ConvSpec: one Conversation object used through its own methods, built   *)
(* by Conversation.create from any creator and any list of invited ids.    *)

InviteLists ==
  UNION {[1..n -> Ids] : n \in 0..MaxInvited}

ConvCreate ==
  /\ conv = None
  /\ \E creator \in Ids : \E invited \in InviteLists :
       conv' = Some(ConversationCreate("c", creator, invited, clock))
  /\ UNCHANGED <<engVars, clock, agentDoc, calls>>

ConvAcceptInvite ==
  /\ IsSome(conv)
  /\ \E p \in Ids :
       /\ ~AcceptInviteThrows(Val(conv), p)
       /\ conv' = Some(AcceptInvite(Val(conv), p, clock))
  /\ UNCHANGED <<engVars, clock, agentDoc, calls>>

ConvRejectInvite ==
  /\ IsSome(conv)
  /\ \E p \in Ids :
       /\ ~RejectInviteThrows(Val(conv), p)
       /\ conv' = Some(RejectInvite(Val(conv), p, clock))
  /\ UNCHANGED <<engVars, clock, agentDoc, calls>>

ConvAddMessage ==
  /\ IsSome(conv)
  /\ Val(conv).numMessages < MaxMessages
  /\ \E p \in Ids :
       /\ AddMessageError(Val(conv), p) = ""
       /\ conv' = Some(AddMessage(Val(conv), p, clock))
  /\ UNCHANGED <<engVars, clock, agentDoc, calls>>

ConvFinishSpeaking ==
  /\ IsSome(conv)
  /\ \E p \in Ids :
       /\ ~FinishSpeakingThrows(Val(conv), p)
       /\ conv' = Some(FinishSpeaking(Val(conv), p, clock))
  /\ UNCHANGED <<engVars, clock, agentDoc, calls>>

ConvLeave ==
  /\ IsSome(conv)
  /\ \E p \in Ids : conv' = Some(Leave(Val(conv), p, clock))
  /\ UNCHANGED <<engVars, clock, agentDoc, calls>>

(* Conversation.tick with the clock the deadlines are armed with, now or  *)
(* after the inactivity timeout                                            *)
ConvTick ==
  /\ IsSome(conv)
  /\ \E now \in {clock, clock + MessageTimeout + 1} :
       conv' = Some(ConversationTick(Val(conv), now))
  /\ UNCHANGED <<engVars, clock, agentDoc, calls>>

ConvArchive ==
  /\ IsSome(conv)
  /\ conv' = Some(ConversationArchive(Val(conv), clock))
  /\ UNCHANGED <<engVars, clock, agentDoc, calls>>

ConvNext ==
  \/ ConvCreate
  \/ ConvAcceptInvite
  \/ ConvRejectInvite
  \/ ConvAddMessage
  \/ ConvFinishSpeaking
  \/ ConvLeave
  \/ ConvTick
  \/ ConvArchive
  \/ AdvanceClock

ConvSpec == Init /\ [][ConvNext]_vars

----------------------------------------------------------------------------
(* JavaScript numbers of the trust model.  A number is <<n>> for the       *)
(* finite value n, or NaN.  trustScore, trustLevel and the emotionalState  *)
(* fields are kept in hundredths (50.0 is 5000), so that delta * 0.5,      *)
(* delta * 0.3 and delta * 0.4 stay integral; a delta is kept in units.    *)

NaN       == <<>>
Num(n)    == <<n>>
IsNaN(x)  == x = NaN

JsAdd(x, y)   == IF IsNaN(x) \/ IsNaN(y) THEN NaN ELSE Num(x[1] + y[1])
JsTimes(x, k) == IF IsNaN(x) THEN NaN ELSE Num(x[1] * k)
JsGreater(x, y) == ~IsNaN(x) /\ ~IsNaN(y) /\ x[1] > y[1]

MathAbs(x)    == IF IsNaN(x) THEN NaN ELSE Num(IF x[1] < 0 THEN -x[1] ELSE x[1])
MathMin(x, y) ==
  IF IsNaN(x) \/ IsNaN(y) THEN NaN ELSE IF x[1] < y[1] THEN x ELSE y
MathMax(x, y) ==
  IF IsNaN(x) \/ IsNaN(y) THEN NaN ELSE IF x[1] > y[1] THEN x ELSE y

HistoryLimit == 100   \* agent.ts updateTrustScore: reputationHistory.length > 100

\* Agent.create, the fields the trust model reads and writes.
NewAgent(id) ==
  [ id                |-> id,
    trustScore        |-> Num(5000),
    reputationHistory |-> <<>>,
    socialConnections |-> <<>>,
    happiness         |-> Num(5000),
    stress            |-> Num(2000),
    energy            |-> Num(InitialEnergy),
    sociability       |-> Num(6000) ]

\* reputationHistory.slice(-100)
SliceLast(s, n) ==
  IF Len(s) > n THEN SubSeq(s, Len(s) - n + 1, Len(s)) ELSE s

\* A history that discards the newest entry instead of the oldest.
PushHistoryKeepsOldest(h, entry) ==
  IF Len(h) >= HistoryLimit THEN h ELSE Append(h, entry)

\* The history as updateTrustScore leaves it: the entry pushed, then the
\* list cut to its last 100 entries when it is longer than 100.
PushHistory(h, entry) ==
  LET pushed == Append(h, entry)
  IN  IF Len(pushed) > HistoryLimit THEN SliceLast(pushed, HistoryLimit)
      ELSE pushed

\* Agent.updateTrustScore(delta, action, context)
UpdateTrustScore(a, delta, action, t) ==
  LET score == MathMax(Num(0), MathMin(Num(10000),
                 JsAdd(a.trustScore, JsTimes(delta, 100))))
      hist  == PushHistory(a.reputationHistory,
                 [timestamp |-> t, action |-> action, impact |-> delta])
  IN  IF JsGreater(delta, Num(0))
      THEN [a EXCEPT
             !.trustScore = score,
             !.reputationHistory = hist,
             !.happiness = MathMin(Num(10000), JsAdd(@, JsTimes(delta, 50))),
             !.stress    = MathMax(Num(0), JsAdd(@, JsTimes(delta, -30)))]
      ELSE [a EXCEPT
             !.trustScore = score,
             !.reputationHistory = hist,
             !.stress    = MathMin(Num(10000),
                             JsAdd(@, JsTimes(MathAbs(delta), 40))),
             !.happiness = MathMax(Num(0), JsAdd(@, JsTimes(delta, 30)))]

\* socialConnections.find(c => c.agentId === agentId): its index, 0 if none
FindConnection(cs, agentId) ==
  IF \E k \in 1..Len(cs) : cs[k].agentId = agentId
  THEN CHOOSE k \in 1..Len(cs) :
         /\ cs[k].agentId = agentId
         /\ \A j \in 1..(k - 1) : cs[j].agentId # agentId
  ELSE 0

\* Agent.updateSocialConnection(agentId, trustDelta)
UpdateSocialConnection(a, agentId, trustDelta, t) ==
  LET found == FindConnection(a.socialConnections, agentId)
      cs    == IF found = 0
               THEN Append(a.socialConnections,
                      [agentId |-> agentId, trustLevel |-> Num(5000),
                       interactionCount |-> 0, lastInteraction |-> t])
               ELSE a.socialConnections
      k     == IF found = 0 THEN Len(cs) ELSE found
  IN  [a EXCEPT
        !.socialConnections =
          [cs EXCEPT ![k] =
            [@ EXCEPT
              !.trustLevel = MathMax(Num(0), MathMin(Num(10000),
                               JsAdd(@, JsTimes(trustDelta, 100)))),
              !.interactionCount = @ + 1,
              !.lastInteraction = t]],
        !.sociability = MathMin(Num(10000), JsAdd(@, Num(100)))]

----------------------------------------------------------------------------
(* AgentSpec: one Agent object, fresh from Agent.create, used through      *)
(* updateTrustScore and updateSocialConnection.  The callers make either   *)
(* a few calls of any kind, or a run of 99 equal updateTrustScore calls    *)
(* followed by a few calls of any kind, which takes the history past its   *)
(* limit of 100.                                                           *)

\* The deltas a caller may pass: v.number() admits every float64, NaN
\* included.
Deltas == {NaN} \cup {Num(d) : d \in {-200, -1, 0, 1, 200}}

Peers == {ToString(i) : i \in 1..MaxPeers}

TrustCall(delta)           == [op |-> "updateTrustScore", delta |-> delta]
SocialCall(agentId, delta) ==
  [op |-> "updateSocialConnection", agentId |-> agentId, delta |-> delta]

Routine       == TrustCall(Num(1))
AllRoutine(s) == \A k \in 1..Len(s) : s[k] = Routine

Allowed(c) ==
  \/ Len(calls) < MaxCalls
  \/ c = Routine /\ AllRoutine(calls) /\ Len(calls) < HistoryLimit - 1
  \/ /\ Len(calls) >= HistoryLimit - 1
     /\ Len(calls) < HistoryLimit - 1 + MaxCalls

AgentConstruct ==
  /\ agentDoc = None
  /\ agentDoc' = Some(NewAgent("0"))
  /\ calls' = <<>>
  /\ UNCHANGED <<engVars, clock, conv>>

AgentUpdateTrustScore ==
  /\ IsSome(agentDoc)
  /\ \E delta \in Deltas :
       /\ Allowed(TrustCall(delta))
       /\ agentDoc' = Some(UpdateTrustScore(Val(agentDoc), delta, "act", clock))
       /\ calls' = Append(calls, TrustCall(delta))
  /\ UNCHANGED <<engVars, clock, conv>>

AgentUpdateSocialConnection ==
  /\ IsSome(agentDoc)
  /\ \E agentId \in Peers : \E delta \in Deltas :
       /\ Allowed(SocialCall(agentId, delta))
       /\ agentDoc' = Some(UpdateSocialConnection(Val(agentDoc), agentId,
                             delta, clock))
       /\ calls' = Append(calls, SocialCall(agentId, delta))
  /\ UNCHANGED <<engVars, clock, conv>>

AgentNext ==
  \/ AgentConstruct
  \/ AgentUpdateTrustScore
  \/ AgentUpdateSocialConnection

AgentSpec == Init /\ [][AgentNext]_vars

----------------------------------------------------------------------------
(* AllocSpec: one World object, constructed from a worlds record with any  *)
(* counter value, on which allocId is called a number of times.            *)

WorldConstruct ==
  /\ calls = <<>>
  /\ \E n \in 0..MaxNextId :
       world' = NewWorld([nextId |-> n, lastViewed |-> Epoch])
  /\ UNCHANGED <<engine, inputs, scheduled, dbVars, game, pc, batch, idx,
                 results, applied, steps, clock, conv, agentDoc, calls,
                 present, entity, memoryDb>>

WorldAllocId ==
  /\ Len(calls) < MaxAllocs
  /\ world' = Allocated(world)
  /\ calls' = Append(calls, [op |-> "allocId", before |-> world.nextId,
                             returned |-> AllocId(world)])
  /\ UNCHANGED <<engine, inputs, scheduled, dbVars, game, pc, batch, idx,
                 results, applied, steps, clock, conv, agentDoc, present,
                 entity, memoryDb>>

AllocNext ==
  \/ WorldConstruct
  \/ WorldAllocId

AllocSpec == Init /\ [][AllocNext]_vars

----------------------------------------------------------------------------
(* AbsentSpec: the deployed engine in a deployment where the engines       *)
(* record or the worlds record can be deleted from outside (no mutation of *)
(* the program deletes them).  A mutation that does not find a record it   *)
(* looks up throws, and a mutation that throws writes nothing.             *)

DeleteEngine ==
  /\ pc = "idle"
  /\ present.engine
  /\ present' = [present EXCEPT !.engine = FALSE]
  /\ UNCHANGED <<engine, inputs, scheduled, dbVars, clock, stepVars, applied,
                 steps, conv, agentDoc, calls, entity, memoryDb>>

DeleteWorld ==
  /\ pc = "idle"
  /\ present.world
  /\ present' = [present EXCEPT !.world = FALSE]
  /\ UNCHANGED <<engine, inputs, scheduled, dbVars, clock, stepVars, applied,
                 steps, conv, agentDoc, calls, entity, memoryDb>>

\* A lookup that is content with the engines record.
EngineFound == present.engine

\* ctx.db.get(engineId) and ctx.db.get(worldStatus.worldId) both return a
\* record
RecordsFound == present.engine /\ present.world

\* tick: the error it throws, "" when it throws none.  The running flag is
\* tested between the two lookups.
TickError ==
  IF ~present.engine THEN "Engine not found"
  ELSE IF ~engine.running THEN ""
  ELSE IF ~present.world THEN "World not found"
  ELSE ""

TickAborted ==
  /\ pc = "idle"
  /\ scheduled > 0
  /\ TickError # ""
  /\ Len(calls) < MaxAborts
  /\ scheduled' = scheduled - 1
  /\ calls' = Append(calls, [op |-> "tick", error |-> TickError])
  /\ UNCHANGED <<engine, inputs, dbVars, clock, stepVars, applied, steps, conv,
                 agentDoc, present, entity, memoryDb>>

AbsentNext ==
  \/ SendInput
  \/ present.engine /\ Start
  \/ present.engine /\ Stop
  \/ RecordsFound /\ Restart
  \/ present.engine /\ TickSkipped
  \/ RecordsFound /\ TickBegin
  \/ TickInput
  \/ TickWorld
  \/ TickFinish
  \/ TickAborted
  \/ DeleteEngine
  \/ DeleteWorld

AbsentSpec == Init /\ [][AbsentNext]_vars

----------------------------------------------------------------------------
(* Movement of a Player or an Agent (player.ts, agent.ts).  Positions and  *)
(* distances are kept in thousandths, on the line through the entity and   *)
(* its destination (dy = 0), so that Math.sqrt(dx * dx + dy * dy) is |dx|  *)
(* and (dx / distance) is the sign of dx.  The path of walkTo has one      *)
(* element, the destination.                                               *)

ArrivalRadius == 100   \* tick: distance < 0.1
MoveUnit      == 16    \* tick: speed * 0.016, for speed 1

Abs(x)  == IF x < 0 THEN -x ELSE x
Sign(x) == IF x < 0 THEN -1 ELSE IF x > 0 THEN 1 ELSE 0

\* new Player(doc) and new Agent(doc), the fields that movement, sleep and
\* the conversation methods read and write
NewPlayerEntity(id, speed) ==
  [kind |-> "player", id |-> id, conversationId |-> None, status |-> "idle",
   position |-> 0, speed |-> speed, pathfinding |-> None]

NewAgentEntity(id, speed, energy, t) ==
  [kind |-> "agent", id |-> id, conversationId |-> None, status |-> "idle",
   position |-> 0, speed |-> speed, pathfinding |-> None,
   energy |-> energy, lastWakeUp |-> t, sleepUntil |-> None]

\* Player.walkTo; Agent.walkTo returns at once when the agent is sleeping
WalkTo(e, destination) ==
  IF e.kind = "agent" /\ e.status = "sleeping" THEN e
  ELSE [e EXCEPT !.pathfinding = Some([destination |-> destination,
                                        currentStep |-> 0]),
                 !.status = "walking"]

StopWalking(e) == [e EXCEPT !.pathfinding = None, !.status = "idle"]

\* The walking block of Player.tick and of Agent.tick
Walk(e) ==
  IF e.status = "walking" /\ IsSome(e.pathfinding)
  THEN LET pf == Val(e.pathfinding)
           dx == pf.destination - e.position
       IN  IF pf.currentStep < 1
           THEN IF Abs(dx) < ArrivalRadius
                THEN StopWalking([e EXCEPT !.position = pf.destination])
                ELSE [e EXCEPT !.position = @ + Sign(dx) * e.speed * MoveUnit]
           ELSE e
  ELSE e

\* Player.tick, and Agent.tick: the sleep gate returns before the walking
\* block when the agent is or falls asleep
EntityTick(e, now, t) ==
  IF e.kind = "player" THEN Walk(e)
  ELSE LET a == AgentTick(e, now, t)
       IN  IF a.status = "sleeping" THEN a ELSE Walk(a)

\* joinConversation: status 'talking', then stopWalking()
JoinConversation(e, cid) ==
  StopWalking([e EXCEPT !.conversationId = Some(cid), !.status = "talking"])

PlayerLeaveConversation(e) ==
  [e EXCEPT !.conversationId = None, !.status = "idle"]

----------------------------------------------------------------------------
(* EntitySpec: one Player or Agent object used through walkTo, tick,       *)
(* wakeUp and the conversation methods; the conversation methods are       *)
(* called on an entity that is not asleep.  calls holds one entry for each *)
(* walkTo, with the distance at the call and the ticks counted since.      *)

Speeds       == {1, 13}
Energies     == {2900, EnergyMax - TickEnergy}
Destinations == {0, 50, 104, 1000}

Walked(d, dist, accepted) ==
  [op |-> "walkTo", destination |-> d, distance |-> dist, ticks |-> 0,
   only |-> accepted]

\* The log after one more call: a tick is counted as long as only ticks
\* have followed the walkTo, any other call ends that run of ticks
Ticked(log) ==
  IF log = <<>> \/ ~log[Len(log)].only THEN log
  ELSE [log EXCEPT ![Len(log)].ticks = @ + 1]
Interrupted(log) ==
  IF log = <<>> THEN log ELSE [log EXCEPT ![Len(log)].only = FALSE]

TheEntity == Val(entity)

EntityConstruct ==
  /\ entity = None
  /\ \E speed \in Speeds :
       \/ entity' = Some(NewPlayerEntity("0", speed))
       \/ \E energy \in Energies :
            entity' = Some(NewAgentEntity("0", speed, energy, clock))
  /\ UNCHANGED <<engine, inputs, scheduled, dbVars, clock, stepVars, applied,
                 steps, conv, agentDoc, calls, present, memoryDb>>

EntityWalkTo ==
  /\ IsSome(entity)
  /\ Len(calls) < MaxWalks
  /\ \E d \in Destinations :
       /\ entity' = Some(WalkTo(TheEntity, d))
       /\ calls' = Append(calls, Walked(d, Abs(d - TheEntity.position),
                                        TheEntity.status # "sleeping"))
  /\ UNCHANGED <<engine, inputs, scheduled, dbVars, clock, stepVars, applied,
                 steps, conv, agentDoc, present, memoryDb>>

\* The now of a tick: Date.now(), a time past the 16 hours an agent stays
\* awake, and, for a sleeping agent, the times around sleepUntil
TickNows(e) ==
  {clock, clock + AwakeLimit + 1}
  \cup (IF e.kind = "agent" /\ IsSome(e.sleepUntil)
        THEN {Val(e.sleepUntil) - 1, Val(e.sleepUntil),
              Val(e.sleepUntil) + AwakeLimit + 1}
        ELSE {})

EntityTicked ==
  /\ IsSome(entity)
  /\ calls # <<>> => calls[Len(calls)].ticks < MaxWalkTicks
  /\ \E now \in TickNows(TheEntity) :
       entity' = Some(EntityTick(TheEntity, now, clock))
  /\ calls' = Ticked(calls)
  /\ UNCHANGED <<engine, inputs, scheduled, dbVars, clock, stepVars, applied,
                 steps, conv, agentDoc, present, memoryDb>>

EntityWakeUp ==
  /\ IsSome(entity)
  /\ TheEntity.kind = "agent"
  /\ entity' = Some(WakeUp(TheEntity, clock))
  /\ calls' = Interrupted(calls)
  /\ UNCHANGED <<engine, inputs, scheduled, dbVars, clock, stepVars, applied,
                 steps, conv, agentDoc, present, memoryDb>>

\* World.startConversation: participant.conversationId = conversationId
EntityInvited ==
  /\ IsSome(entity)
  /\ TheEntity.status # "sleeping"
  /\ TheEntity.conversationId = None
  /\ entity' = Some([TheEntity EXCEPT !.conversationId = Some("c")])
  /\ calls' = Interrupted(calls)
  /\ UNCHANGED <<engine, inputs, scheduled, dbVars, clock, stepVars, applied,
                 steps, conv, agentDoc, present, memoryDb>>

EntityJoinConversation ==
  /\ IsSome(entity)
  /\ TheEntity.status # "sleeping"
  /\ TheEntity.conversationId = None
  /\ entity' = Some(JoinConversation(TheEntity, "c"))
  /\ calls' = Interrupted(calls)
  /\ UNCHANGED <<engine, inputs, scheduled, dbVars, clock, stepVars, applied,
                 steps, conv, agentDoc, present, memoryDb>>

EntityLeaveConversation ==
  /\ IsSome(entity)
  /\ TheEntity.status # "sleeping"
  /\ IsSome(TheEntity.conversationId)
  /\ entity' = Some(IF TheEntity.kind = "agent"
                    THEN AgentLeaveConversation(TheEntity)
                    ELSE PlayerLeaveConversation(TheEntity))
  /\ calls' = Interrupted(calls)
  /\ UNCHANGED <<engine, inputs, scheduled, dbVars, clock, stepVars, applied,
                 steps, conv, agentDoc, present, memoryDb>>

EntityNext ==
  \/ EntityConstruct
  \/ EntityWalkTo
  \/ EntityTicked
  \/ EntityWakeUp
  \/ EntityInvited
  \/ EntityJoinConversation
  \/ EntityLeaveConversation

EntitySpec == Init /\ [][EntityNext]_vars

----------------------------------------------------------------------------
(* TimeSpec: the steps of the engine over a World that holds one           *)
(* Conversation and one Agent, with the wall clock moving on between the   *)
(* steps by more than one of the delays the deadlines are armed with.      *)

Delays == {SpeakingGrace, InviteTimeout, MessageTimeout, SleepDuration}

Wait ==
  /\ clock - Epoch < MaxWaits * SpeakingGrace
  /\ \E d \in Delays : clock' = clock + d + 1
  /\ UNCHANGED <<engVars, conv, agentDoc, calls>>

TimeAgent ==
  /\ entity = None
  /\ \E energy \in Energies :
       entity' = Some(NewAgentEntity("2", 1, energy, clock))
  /\ UNCHANGED <<engine, inputs, scheduled, dbVars, clock, stepVars, applied,
                 steps, conv, agentDoc, calls, present, memoryDb>>

\* The World of the step: the conversation and the agent
TimeWorld ==
  [nextId |-> 3, lastViewed |-> Epoch, players |-> EmptyMap,
   agents |-> IF IsSome(entity) THEN MapSet(EmptyMap, "2", TheEntity)
              ELSE EmptyMap,
   conversations |-> IF IsSome(conv) THEN MapSet(EmptyMap, "c", Val(conv))
                     ELSE EmptyMap]

\* Game.tick without commands: world.tick(db, this.now()), updateTiming
EngineStep ==
  /\ steps < MaxTimeSteps
  /\ LET st == WorldTick([w |-> TimeWorld, ar |-> EmptyArchive, msgs |-> <<>>,
                          eng |-> engine], Now(engine), clock)
     IN  /\ conv' = IF Has(st.w.conversations, "c")
                     THEN Some(st.w.conversations["c"])
                     ELSE IF Has(st.ar.conversations, "c")
                     THEN Some(st.ar.conversations["c"])
                     ELSE None
         /\ entity' = IF Has(st.w.agents, "2") THEN Some(st.w.agents["2"])
                       ELSE None
         /\ engine' = [st.eng EXCEPT !.lastStepTs = Some(clock),
                                     !.currentTime = Some(Now(engine) + TICK)]
  /\ steps' = steps + 1
  /\ UNCHANGED <<inputs, scheduled, dbVars, clock, stepVars, applied, agentDoc,
                 calls, present, memoryDb>>

TimeNext ==
  \/ ConvCreate
  \/ ConvAcceptInvite
  \/ ConvAddMessage
  \/ ConvFinishSpeaking
  \/ TimeAgent
  \/ Wait
  \/ EngineStep

TimeSpec == Init /\ [][TimeNext]_vars

----------------------------------------------------------------------------
(* AgentMemory (convex/agent/memory.ts).  The times of the memory tables   *)
(* are kept in days, and a score is kept as 30 times its value, so that    *)
(* (Date.now() - lastAccess) / (30 * 24 * 60 * 60 * 1000) is exact:        *)
(*   30 * score = 30 * importance + (now - lastAccess) in days.            *)

MonthDays == 30   \* cleanupMemories: 30 * 24 * 60 * 60 * 1000 ms

Score(m, now) == MonthDays * m.importance + (now - m.lastAccess)

\* createMemory with createEmbedding: one embedding row and one memory row
CreateMemory(db, agentId, importance, t) ==
  [memories |-> Append(db.memories,
                       [playerId |-> agentId, importance |-> importance,
                        lastAccess |-> t, embeddingId |-> db.nextEmbedding]),
   embeddings |-> db.embeddings \cup {db.nextEmbedding},
   nextEmbedding |-> db.nextEmbedding + 1]

\* query('memories').withIndex('playerId', eq(agentId)).collect()
AllMemories(db, agentId) ==
  SelectSeq(db.memories, LAMBDA m : m.playerId = agentId)

\* Array.prototype.sort with (a, b) => scoreA - scoreB: ascending and
\* stable; the place of the i-th element in the sorted array
SortedPlace(ms, i, now) ==
  1 + Cardinality({j \in 1..Len(ms) : Score(ms[j], now) < Score(ms[i], now)})
    + Cardinality({j \in 1..(i - 1) :
                     Score(ms[j], now) = Score(ms[i], now)})

\* A cleanup that deletes the whole low end, whatever the importance.
DoomedWithoutFloor(ms, maxMemories, minImportanceToKeep, now) ==
  {i \in 1..Len(ms) : SortedPlace(ms, i, now) <= Len(ms) - maxMemories}

\* sortedMemories.slice(0, allMemories.length - maxMemories), then the
\* memories of it with importance < minImportanceToKeep
Doomed(ms, maxMemories, minImportanceToKeep, now) ==
  {i \in 1..Len(ms) :
     /\ SortedPlace(ms, i, now) <= Len(ms) - maxMemories
     /\ ms[i].importance < minImportanceToKeep}

CleanupMemories(db, agentId, maxMemories, minImportanceToKeep, now) ==
  LET all == AllMemories(db, agentId)
  IN  IF Len(all) <= maxMemories THEN [db |-> db, returned |-> 0]
      ELSE LET doomed == Doomed(all, maxMemories, minImportanceToKeep, now)
               gone   == {all[i] : i \in doomed}
           IN  [db |-> [db EXCEPT
                          !.memories = SelectSeq(@, LAMBDA m : m \notin gone),
                          !.embeddings =
                              @ \ {m.embeddingId : m \in gone}],
                returned |-> Cardinality(doomed)]

----------------------------------------------------------------------------
(* MemorySpec: the memories of two agents; memories are created, read      *)
(* again later or not, and cleaned up for one agent at a time.             *)

MemoryNow    == 90            \* Date.now() of the cleanup, in days
LastAccesses == {30, 60, 90}  \* lastAccess of a memory, in days
Importances  == {2, 3, 4}
Owners       == {"0", "1"}
MaxCounts    == {0, 1, 2}     \* maxMemories
KeepFloors   == {3, 4}        \* minImportanceToKeep

MemCreate ==
  /\ Len(memoryDb.memories) < MaxMemories
  /\ calls = <<>>
  /\ \E a \in Owners, imp \in Importances, t \in LastAccesses :
       memoryDb' = CreateMemory(memoryDb, a, imp, t)
  /\ UNCHANGED <<engine, inputs, scheduled, dbVars, clock, stepVars, applied,
                 steps, conv, agentDoc, calls, present, entity>>

MemCleanup ==
  /\ Len(calls) < MaxCleanups
  /\ \E a \in Owners, maxMemories \in MaxCounts, floor \in KeepFloors :
       LET r == CleanupMemories(memoryDb, a, maxMemories, floor, MemoryNow)
       IN  /\ memoryDb' = r.db
           /\ calls' = Append(calls,
                 [op |-> "cleanupMemories", agentId |-> a,
                  maxMemories |-> maxMemories, minImportanceToKeep |-> floor,
                  before |-> memoryDb, returned |-> r.returned])
  /\ UNCHANGED <<engine, inputs, scheduled, dbVars, clock, stepVars, applied,
                 steps, conv, agentDoc, present, entity>>

MemoryNext ==
  \/ MemCreate
  \/ MemCleanup

MemorySpec == Init /\ [][MemoryNext]_vars

----------------------------------------------------------------------------
(* AgentConversation.shouldStartConversation (convex/agent/conversation.ts) *)
(* and the query that calls it (agents.ts).  Moods and trust levels are in  *)
(* hundredths, as in the trust model; a probability is kept in units of     *)
(* 1/100000, so that (x - 50) * 0.004 is (x * 100 - 5000) * 4.              *)

Certain == 100000   \* probability 1

\* Agent.getTrustLevel
GetTrustLevel(a, agentId) ==
  LET found == FindConnection(a.socialConnections, agentId)
  IN  IF found = 0 THEN Num(5000) ELSE a.socialConnections[found].trustLevel

\* The context the query builds: happiness - stress, getTrustLevel(target)
CurrentMood(a) == JsAdd(a.happiness, JsTimes(a.stress, -1))

MoodTerm(currentMood)  == JsTimes(JsAdd(currentMood, Num(-5000)), 4)
TrustTerm(trustLevel)  == JsTimes(JsAdd(trustLevel, Num(-5000)), 3)

ProximityTerm(proximity) ==
  IF proximity < 2 THEN 30000 ELSE IF proximity < 5 THEN 10000 ELSE 0

\* The probability before Math.random(): the sum, halved after more than 3
\* recent conversations, clamped to [0, 1]
StartProbability(proximity, sharedHistory, currentMood, trustLevel, recent) ==
  LET sum == 10000 + ProximityTerm(proximity)
               + (IF sharedHistory THEN 20000 ELSE 0)
               + MoodTerm(currentMood)[1] + TrustTerm(trustLevel)[1]
      p   == IF recent > 3 THEN sum \div 2 ELSE sum
  IN  IF p < 0 THEN 0 ELSE IF p > Certain THEN Certain ELSE p

----------------------------------------------------------------------------
(* MoodSpec: an archived Agent whose happiness, stress and trust in a peer  *)
(* lie in [0, 100], asked by the shouldStartConversation query.             *)

Levels      == {0, 2000, 5000, 8000, 10000}
Proximities == {1, 3, 10}
RecentCounts == {0, 4}

MoodAgent ==
  /\ agentDoc = None
  /\ \E h \in Levels, st \in Levels :
       \/ agentDoc' = Some([NewAgent("0") EXCEPT !.happiness = Num(h),
                                                !.stress = Num(st)])
       \/ \E t \in Levels :
            agentDoc' = Some([NewAgent("0") EXCEPT
                                !.happiness = Num(h), !.stress = Num(st),
                                !.socialConnections =
                                    <<[agentId |-> "1", trustLevel |-> Num(t),
                                       interactionCount |-> 1,
                                       lastInteraction |-> clock]>>])
  /\ UNCHANGED <<engVars, clock, conv, calls>>

\* The query: Math.random() < p is false for p = 0 and true for p = 1
ShouldStartConversation ==
  /\ IsSome(agentDoc)
  /\ Len(calls) < MaxQueries
  /\ \E proximity \in Proximities, sharedHistory \in BOOLEAN,
        recent \in RecentCounts, answer \in BOOLEAN :
       LET mood  == CurrentMood(Val(agentDoc))
           trust == GetTrustLevel(Val(agentDoc), "1")
           p     == StartProbability(proximity, sharedHistory, mood, trust,
                                     recent)
       IN  /\ answer => p > 0
           /\ ~answer => p < Certain
           /\ calls' = Append(calls,
                 [op |-> "shouldStartConversation", currentMood |-> mood,
                  trustLevel |-> trust, moodTerm |-> MoodTerm(mood),
                  trustTerm |-> TrustTerm(trust), probability |-> p,
                  answer |-> answer])
  /\ UNCHANGED <<engVars, clock, conv, agentDoc>>

MoodNext ==
  \/ MoodAgent
  \/ ShouldStartConversation

MoodSpec == Init /\ [][MoodNext]_vars

----------------------------------------------------------------------------
(* Claims about the input queue and the step (Spec, QueueSpec) *)

HasResult(i) == IsSome(inputs[i].returnValue)
SomeFailure  == \E k \in 1..Len(results) : ~results[k].success

(* C1: each command of the input queue is applied exactly once over any   *)
(* sequence of steps: no command handled by an earlier step is handled     *)
(* again by a later one.                                                   *)
CommandAppliedOnce == \A i \in 1..Len(applied) : applied[i] <= 1

(* C2: sendInput numbers the commands of an engine strictly increasingly: *)
(* the later of two commands has the larger number, no two share one.      *)
NumbersStrictlyIncrease ==
  \A i \in 1..Len(inputs) : \A j \in 1..Len(inputs) :
    i < j => inputs[i].number < inputs[j].number

(* C3: a step that begins while some command has no result yet takes at   *)
(* least one such command, so that the commands a step leaves are applied  *)
(* by later steps and none waits forever.                                  *)
PendingCommandTaken ==
  (pc = "inputs" /\ idx = 0 /\ \E i \in 1..Len(inputs) : ~HasResult(i))
    => \E k \in 1..Len(batch) : ~HasResult(batch[k])

(* C4: when a step has written its return values, a command whose handler *)
(* failed holds kind error, and kind ok is held only by the commands whose *)
(* handler succeeded.                                                      *)
ErrorWrittenForFailure ==
  (pc = "idle" /\ Len(batch) > 0 /\ Len(results) = Len(batch))
    => \A k \in 1..Len(batch) :
         HasResult(batch[k])
           => (Val(inputs[batch[k]].returnValue).kind = "ok" <=> results[k].success)

(* C5: a failing command never stops the step: the later commands of the  *)
(* batch are still handled in order, the world tick, the save and the      *)
(* timing update of the step still run, and the next tick is scheduled     *)
(* when the engine is running.                                             *)
StepRanToEnd ==
  /\ Len(results) = Len(batch)
  /\ \A k \in 1..Len(batch) : results[k].input = batch[k]
  /\ world.lastViewed = Now(game)
  /\ worldDoc = Serialize(world)
  /\ engine.currentTime = Some(Now(game) + TICK)

FailureNeverStopsStep ==
  /\ [](pc = "inputs" /\ SomeFailure => Len(results) = idx)
  /\ [][pc = "inputs" /\ SomeFailure => pc' \in {"inputs", "finish"}]_vars
  /\ [](pc = "finish" /\ SomeFailure => StepRanToEnd)
  /\ [][pc = "finish" /\ SomeFailure /\ pc' = "idle" /\ engine'.running
          => scheduled' = scheduled + 1]_vars

(* A step in which a failing command was followed by a successful one *)
FailureThenSuccess ==
  /\ pc = "finish"
  /\ \E j \in 1..Len(results) : \E k \in 1..Len(results) :
       j < k /\ ~results[j].success /\ results[k].success
  /\ engine.running

----------------------------------------------------------------------------
(* Claims about conversations (GameSpec) *)

Conv(cid)   == world.conversations[cid]
LiveConvs   == DOMAIN world.conversations
TurnHeld(c) == c.status = "active" /\ IsSome(c.currentSpeaker)
Free(w, id) == Known(w, id) /\ ~IsSome(Participant(w, id).conversationId)
Run(st, cmd) == ProcessInput(st, cmd, game, clock)

SendMessageBy(p) == Cmd("sendMessage", [playerId |-> p])
StartBy(p, q)    == Cmd("startConversation", [playerId |-> p, invitee |-> q])
FinishBy(p, cid) == Cmd("finishSpeaking", [playerId |-> p, conversationId |-> cid])
LeaveConversationBy(p, cid) ==
  Cmd("leaveConversation", [playerId |-> p, conversationId |-> cid])

(* C6: turn invariant: while an active conversation has a current speaker *)
(* s, the addMessage of every other participant fails and changes nothing, *)
(* and the conversation changes only by a further message of s, by         *)
(* finishSpeaking(s), by a tick that finds speakingUntil elapsed, or by    *)
(* ending.                                                                 *)
OthersRejected ==
  pc = "inputs" =>
    \A cid \in LiveConvs :
      TurnHeld(Conv(cid)) =>
        \A k \in 1..Len(Conv(cid).participants) :
          LET p == Conv(cid).participants[k]
          IN  p # Val(Conv(cid).currentSpeaker) =>
                /\ AddMessageError(Conv(cid), p) # ""
                /\ (Has(world.players, p)
                    /\ world.players[p].conversationId = Some(cid))
                     => LET r == Run(Context, SendMessageBy(p))
                        IN  ~r.success /\ r.st = Context

TurnKept ==
  \A cid \in LiveConvs \cap DOMAIN world'.conversations :
    LET c == Conv(cid)
        d == world'.conversations[cid]
        s == Val(c.currentSpeaker)
    IN  (TurnHeld(c) /\ d # c) =>
          \/ d = AddMessage(c, s, clock)
          \/ d = FinishSpeaking(c, s, clock)
          \/ d.status = "ended"
          \/ \E now \in NowValues :
               Elapsed(c.speakingUntil, now) /\ d = ConversationTick(c, now)

StartYieldsActive ==
  pc = "inputs" =>
    \A p \in Ids : \A q \in Ids :
      (p # q /\ Free(world, p) /\ Free(world, q)) =>
        LET r   == Run(Context, StartBy(p, q))
            cid == AllocId(world)
        IN  /\ r.success
            /\ Has(r.st.w.conversations, cid)
            /\ Participant(r.st.w, p).conversationId = Some(cid)
            /\ Participant(r.st.w, q).conversationId = Some(cid)
            /\ r.st.w.conversations[cid].status = "active"

(* C8: in a conversation of two entities that both hold its id, when one  *)
(* of them leaves (leaveConversation, or the leave command for a player),  *)
(* after the world tick of that step the conversation is archived as ended *)
(* and neither entity holds its id.                                        *)
Members(c) ==
  {c.participants[k] : k \in 1..Len(c.participants)}
    \cup {c.invited[k] : k \in 1..Len(c.invited)}

Holds(w, id, cid) == Known(w, id) /\ Participant(w, id).conversationId = Some(cid)

ClosedAfter(st, cid, members) ==
  LET after == WorldTick(st, Now(game), clock)
  IN  /\ ~Has(after.w.conversations, cid)
      /\ Has(after.ar.conversations, cid)
      /\ after.ar.conversations[cid].status = "ended"
      /\ \A y \in members : ~Holds(after.w, y, cid)

LeaveClosesConversation ==
  pc = "inputs" =>
    \A cid \in LiveConvs :
      LET c == Conv(cid)
      IN  (/\ c.status # "ended"
           /\ Cardinality(Members(c)) = 2
           /\ \A y \in Members(c) : Holds(world, y, cid)) =>
            \A x \in Members(c) :
              /\ LET r == Run(Context, LeaveConversationBy(x, cid))
                 IN  r.success /\ ClosedAfter(r.st, cid, Members(c))
              /\ Has(world.players, x) =>
                   LET r == Run(Context, Cmd("leave", [playerId |-> x]))
                   IN  r.success /\ ClosedAfter(r.st, cid, Members(c))

(* C9: on a world with two players A and B in no conversation, in this    *)
(* order: startConversation(A,B) succeeds, the conversation is active and  *)
(* both hold its id; sendMessage by A succeeds (numMessages 1, speaker A); *)
(* sendMessage by B fails; finishSpeaking by A succeeds and clears the     *)
(* speaker; sendMessage by B succeeds (numMessages 2).                     *)
ScenarioSucceeds ==
  pc = "inputs" =>
    \A a \in DOMAIN world.players : \A b \in DOMAIN world.players :
      (a # b /\ Free(world, a) /\ Free(world, b)) =>
        LET cid == AllocId(world)
            r1  == Run(Context, StartBy(a, b))
            r2  == Run(r1.st, SendMessageBy(a))
            r3  == Run(r2.st, SendMessageBy(b))
            r4  == Run(r3.st, FinishBy(a, cid))
            r5  == Run(r4.st, SendMessageBy(b))
        IN  /\ r1.success
            /\ r1.st.w.conversations[cid].status = "active"
            /\ Holds(r1.st.w, a, cid) /\ Holds(r1.st.w, b, cid)
            /\ r2.success
            /\ r2.st.w.conversations[cid].numMessages = 1
            /\ r2.st.w.conversations[cid].currentSpeaker = Some(a)
            /\ ~r3.success
            /\ r4.success
            /\ r4.st.w.conversations[cid].currentSpeaker = None
            /\ r5.success
            /\ r5.st.w.conversations[cid].numMessages = 2

(* C10: no entity is a participant or an invitee of more than one         *)
(* conversation of the live map, and startConversation fails when either   *)
(* party holds a conversationId.                                           *)
ConvsOf(id) == {cid \in LiveConvs : id \in Members(Conv(cid))}

OneConversationPerEntity ==
  /\ \A id \in Ids : Cardinality(ConvsOf(id)) <= 1
  /\ pc = "inputs" =>
       \A p \in Ids : \A q \in Ids :
         (Known(world, p) /\ Known(world, q)
          /\ (~Free(world, p) \/ ~Free(world, q)))
           => ~Run(Context, StartBy(p, q)).success

----------------------------------------------------------------------------
(* Claims about the fields of entities and conversations (GameSpec) *)

(* C11: an entity's conversationId is set if and only if its status is    *)
(* talking and it is listed in the participants of that conversation.      *)
ConversationIdIffTalking ==
  \A id \in Ids :
    Known(world, id) =>
      LET e == Participant(world, id)
      IN  IsSome(e.conversationId)
            <=> /\ e.status = "talking"
                /\ Has(world.conversations, Val(e.conversationId))
                /\ Includes(Conv(Val(e.conversationId)).participants, id)

(* C12: a conversation with status waiting has a non-empty invited list.  *)
WaitingHasInvitee ==
  \A cid \in LiveConvs :
    Conv(cid).status = "waiting" => Len(Conv(cid).invited) > 0

(* C17: an ended conversation is immutable: no command and no tick        *)
(* changes its participants, invited, numMessages, lastMessage,            *)
(* currentSpeaker or ended timestamp, in the live map or in the archive.   *)
Frozen(c, d) ==
  /\ d.participants = c.participants
  /\ d.invited = c.invited
  /\ d.numMessages = c.numMessages
  /\ d.lastMessage = c.lastMessage
  /\ d.currentSpeaker = c.currentSpeaker
  /\ d.ended = c.ended

EndedStep ==
  \A cid \in LiveConvs :
    Conv(cid).status = "ended" =>
      /\ Has(world'.conversations, cid)
           => Frozen(Conv(cid), world'.conversations[cid])
      /\ Has(archive'.conversations, cid)
           => Frozen(Conv(cid), archive'.conversations[cid])

EndedConversationFrozen == [][EndedStep]_vars

----------------------------------------------------------------------------
(* Claims about one Conversation object (ConvSpec) *)

(* C13: a conversation with status active has an empty invited list.      *)
ActiveHasNoInvitee ==
  IsSome(conv) => (Val(conv).status = "active" => Len(Val(conv).invited) = 0)

(* C14: the current speaker of a conversation, if set, is one of its      *)
(* participants, and speakingUntil is set exactly when currentSpeaker is.  *)
SpeakerConsistent ==
  IsSome(conv) =>
    /\ IsSome(Val(conv).currentSpeaker)
         => Includes(Val(conv).participants, Val(Val(conv).currentSpeaker))
    /\ IsSome(Val(conv).speakingUntil) <=> IsSome(Val(conv).currentSpeaker)

(* A participant holds the turn in a conversation that its creator left *)
SpeakerAfterLeave ==
  /\ IsSome(conv)
  /\ Val(conv).status = "active"
  /\ IsSome(Val(conv).currentSpeaker)
  /\ ~Includes(Val(conv).participants, Val(conv).creator)

(* C15: the participants of a conversation hold no id twice and no id is  *)
(* both invited and a participant.                                         *)
NoDuplicate(q) == \A i \in 1..Len(q) : \A j \in 1..Len(q) : q[i] = q[j] => i = j

ParticipantsDistinct ==
  IsSome(conv) =>
    /\ NoDuplicate(Val(conv).participants)
    /\ \A k \in 1..Len(Val(conv).invited) :
         ~Includes(Val(conv).participants, Val(conv).invited[k])

(* Every invitee of a conversation of three has accepted *)
AllAccepted ==
  /\ IsSome(conv)
  /\ Len(Val(conv).participants) = 3
  /\ Len(Val(conv).invited) = 0

(* C16: the status of a conversation only moves forward along waiting,    *)
(* active, ended: no step takes it back, and no step changes the status of *)
(* an ended conversation.                                                  *)
StatusRank(st) == CASE st = "waiting" -> 0 [] st = "active" -> 1 [] st = "ended" -> 2

StatusStep ==
  (IsSome(conv) /\ IsSome(conv')) =>
    StatusRank(Val(conv').status) >= StatusRank(Val(conv).status)

StatusMovesForward == [][StatusStep]_vars

(* An ended conversation that had been active: it holds a message *)
EndedAfterActive ==
  /\ IsSome(conv)
  /\ Val(conv).status = "ended"
  /\ Val(conv).numMessages >= 1
  /\ Len(Val(conv).invited) = 0

----------------------------------------------------------------------------
(* Claims about one Agent object (AgentSpec) *)

TheAgent   == Val(agentDoc)
InRange(x) == ~IsNaN(x) /\ x[1] >= 0 /\ x[1] <= 10000

AllInRange(a) ==
  /\ InRange(a.trustScore)
  /\ \A k \in 1..Len(a.socialConnections) :
       InRange(a.socialConnections[k].trustLevel)
  /\ InRange(a.happiness)
  /\ InRange(a.stress)
  /\ InRange(a.energy)
  /\ InRange(a.sociability)

NaNPassed == \E k \in 1..Len(calls) : IsNaN(calls[k].delta)

\* C18: after any sequence of updateTrustScore and updateSocialConnection
\* calls, with any deltas, on an agent that starts within range, trustScore,
\* every trustLevel of socialConnections and the four emotionalState fields
\* are within [0,100].
TrustStaysInRange ==
  IsSome(agentDoc) => AllInRange(TheAgent)

\* The same for the calls whose delta is a number other than NaN.
InRangeUnlessNaN ==
  (IsSome(agentDoc) /\ ~NaNPassed) => AllInRange(TheAgent)

IsTrustCall(c) == c.op = "updateTrustScore"
TrustCalls     == SelectSeq(calls, IsTrustCall)
Least(m, n)    == IF m < n THEN m ELSE n

\* C19: after n updateTrustScore calls reputationHistory holds the most
\* recent min(n, 100) entries in call order, and the impact of each entry is
\* the delta that was passed to its call.
HistoryIsRecentCalls ==
  IsSome(agentDoc) =>
    LET h == TheAgent.reputationHistory
        n == Len(TrustCalls)
        m == Least(n, HistoryLimit)
    IN  /\ Len(h) = m
        /\ \A k \in 1..m : h[k].impact = TrustCalls[n - m + k].delta

\* More than 100 calls have been made, and the last one passed a delta of
\* 200 to an agent whose trustScore could rise by less than that.
HistoryTrimmed ==
  /\ IsSome(agentDoc)
  /\ Len(TrustCalls) > HistoryLimit
  /\ TrustCalls[Len(TrustCalls)].delta = Num(200)
  /\ TheAgent.trustScore = Num(10000)

----------------------------------------------------------------------------
(* Claims about the id allocator (AllocSpec) *)

\* C20: N calls of allocId on a World return N pairwise distinct strings,
\* and afterwards nextId is its value before the calls plus N.
AllocatedIdsDistinct ==
  /\ \A i \in 1..Len(calls) : \A j \in 1..Len(calls) :
       i # j => calls[i].returned # calls[j].returned
  /\ calls # <<>> => world.nextId = calls[1].before + Len(calls)

\* Twelve calls that took the counter from one digit to two.
AllocatedAcrossTen ==
  /\ Len(calls) = MaxAllocs
  /\ \E i \in 1..Len(calls) : calls[i].returned = "9"
  /\ \E i \in 1..Len(calls) : calls[i].returned = "19"

----------------------------------------------------------------------------
(* Claims about the life of a world (Spec) *)

\* C21: over the life of a world, through allocations, steps that save and
\* reload the world, and restarts, the persisted nextId only increases, so
\* that no id is issued twice.
NextIdNeverDecreases ==
  [][worldDoc'.nextId >= worldDoc.nextId]_vars

\* C22: the world on which a step applies its commands is the world the
\* previous step left: every player, agent and conversation live at the end
\* of a step is live, with the same fields, at the start of the next step.
StepStartsFromLastWorld ==
  [][(pc = "idle" /\ pc' = "inputs") =>
       /\ world'.players = world.players
       /\ world'.agents = world.agents
       /\ world'.conversations = world.conversations]_vars

----------------------------------------------------------------------------
(* Claims about World.save, World.load and the no-op operations (GameSpec) *)

\* The World that World.load fills after World.save has run on world.
Reloaded ==
  WorldLoad(NewWorld(Serialize(world)), WorldSave(world, archive))

\* C23: World.save followed by World.load into a fresh World reconstructs
\* exactly the saved live maps; a removed player and an ended conversation
\* are not in the live maps after the load.
SaveLoadRoundTrip ==
  pc = "inputs" =>
    /\ Reloaded.players = world.players
    /\ Reloaded.agents = world.agents
    /\ Reloaded.conversations = world.conversations

----------------------------------------------------------------------------
(* Claims about absent records and about stop (AbsentSpec, Spec) *)

Absent == ~present.engine \/ ~present.world

\* C24: if the engines record or the worlds record is absent when a step
\* starts, the step fails as a whole: no command is applied, no result is
\* written, and processedInputNumber and currentTime do not advance.
AbsentRecordAbortsStep ==
  [][(Absent /\ (engine.running \/ ~present.engine)) =>
       /\ pc' = "idle"
       /\ \A i \in 1..Len(applied) : applied'[i] = applied[i]
       /\ \A i \in 1..Len(inputs) : inputs'[i].returnValue = inputs[i].returnValue
       /\ engine'.processedInputNumber = engine.processedInputNumber
       /\ engine'.currentTime = engine.currentTime]_vars

\* A tick has thrown while a command was waiting, and the command is still
\* waiting.
StepAbortedWithPending ==
  /\ calls # <<>>
  /\ \E i \in 1..Len(inputs) :
       applied[i] = 0 /\ inputs[i].returnValue = None

StopHandled ==
  \E k \in 1..Len(results) :
    inputs[results[k].input].name = "stop" /\ results[k].success

\* C25: stop only prevents later steps.  The step that handles a stop
\* command still handles the rest of its batch and runs its world tick,
\* save and timing update; while the running flag is false no step begins,
\* no command is applied, currentTime does not advance and no tick is
\* scheduled, until the flag is set to true again.
StopOnlyPreventsLaterSteps ==
  /\ [](pc = "inputs" /\ StopHandled => Len(results) = idx)
  /\ [][pc = "inputs" /\ StopHandled => pc' \in {"inputs", "finish"}]_vars
  /\ [](pc = "finish" /\ StopHandled => StepRanToEnd)
  /\ [][pc = "finish" /\ ~engine.running => scheduled' = scheduled]_vars
  /\ [][pc = "idle" /\ ~engine.running /\ ~engine'.running =>
          /\ pc' = "idle"
          /\ \A i \in 1..Len(applied) : applied'[i] = applied[i]
          /\ OrDefault(engine'.currentTime, 0) <= OrDefault(engine.currentTime, 0)
          /\ scheduled' <= scheduled]_vars

\* A step in which a command was applied after a stop command, at the end
\* of the step, with the engine stopped.
AppliedAfterStop ==
  /\ pc = "finish"
  /\ ~engine.running
  /\ \E j \in 1..Len(results) : \E k \in 1..Len(results) :
       /\ j < k
       /\ inputs[results[j].input].name = "stop"
       /\ results[k].success
       /\ inputs[results[k].input].name = "join"

----------------------------------------------------------------------------
(* Claims about one Player or Agent object (EntitySpec) *)

\* ceil(distance / (speed * tickDuration)), in the units of the model
TickBound(distance, speed) ==
  (distance + speed * MoveUnit - 1) \div (speed * MoveUnit)

Arrived(e, d) ==
  e.position = d /\ e.status = "idle" /\ e.pathfinding = None

\* C26: an entity given walkTo(d) and then only ticked has reached d, with
\* status idle and pathfinding cleared, once ceil(distance / (speed *
\* tickDuration)) ticks have run, for every distance (0 included) and speed.
WalkConverges ==
  \A k \in 1..Len(calls) :
    (k = Len(calls) /\ calls[k].only
       /\ calls[k].ticks >= TickBound(calls[k].distance, TheEntity.speed))
      => Arrived(TheEntity, calls[k].destination)

\* C27: in every state of a Player or Agent, pathfinding is present if and
\* only if status is walking.
PathfindingIffWalking ==
  IsSome(entity) =>
    (IsSome(TheEntity.pathfinding) <=> TheEntity.status = "walking")

\* C28: an agent whose energy is below 30 is sleeping after its next tick;
\* a sleeping agent stays sleeping through a tick with now < sleepUntil, and
\* is idle with energy 100 after a tick with now >= sleepUntil.
SleepCycle ==
  (IsSome(entity) /\ TheEntity.kind = "agent") =>
    \A now \in TickNows(TheEntity) :
      LET e == TheEntity
          a == EntityTick(e, now, clock)
      IN  /\ (e.status # "sleeping" /\ e.energy < EnergyThreshold)
               => a.status = "sleeping"
          /\ (e.status = "sleeping" /\ IsSome(e.sleepUntil)
                /\ now < Val(e.sleepUntil))
               => a.status = "sleeping"
          /\ (e.status = "sleeping" /\ IsSome(e.sleepUntil)
                /\ now >= Val(e.sleepUntil))
               => (a.status = "idle" /\ a.energy = EnergyMax)

----------------------------------------------------------------------------
(* Claims about the operations of World on absent ids and about World.tick *)
(* (GameSpec)                                                              *)

\* The times of a second application: at once, or after the clock moved on
LaterTimes == {clock, clock + ClockStep}

\* C29: removePlayer on an id that is not among the players and
\* endConversation on an id that is not in the live map change nothing (live
\* maps, nextId, archive, messages, engine), and a second application of
\* either operation leaves what the first one produced.
AbsentIdIsNoOp ==
  pc = "inputs" =>
    \A id \in Ids, t \in LaterTimes :
      /\ ~Has(world.players, id) => RemovePlayer(Context, id, t) = Context
      /\ ~Has(world.conversations, id)
           => EndConversation(Context, id, t) = Context
      /\ RemovePlayer(RemovePlayer(Context, id, clock), id, t)
           = RemovePlayer(Context, id, clock)
      /\ EndConversation(EndConversation(Context, id, clock), id, t)
           = EndConversation(Context, id, clock)

\* A world with a live agent, a player that was removed and a conversation
\* that was ended
RemovedAndEndedBefore ==
  /\ pc = "inputs"
  /\ DOMAIN world.agents # {}
  /\ \E id \in Ids : ~Has(world.players, id) /\ Has(archive.players, id)
  /\ \E c \in Ids :
       ~Has(world.conversations, c) /\ Has(archive.conversations, c)

\* C30: after World.tick no conversation with status ended is left in the
\* live map: a conversation that a command had ended before the tick, or that
\* its own tick ended, is out of the live map and in the archive as ended.
TickRemovesEnded ==
  [][steps' # steps =>
       /\ \A c \in DOMAIN world'.conversations :
            world'.conversations[c].status # "ended"
       /\ \A c \in DOMAIN world.conversations :
            (world.conversations[c].status = "ended"
               \/ ~Has(world'.conversations, c))
              => /\ ~Has(world'.conversations, c)
                 /\ Has(archive'.conversations, c)
                 /\ archive'.conversations[c].status = "ended"]_vars

\* The world after a tick that removed a conversation which a command had
\* ended: its last participant but one had left, and a conversation with
\* fewer than two participants is never active, so no tick ended it
EndedByCommandRemoved ==
  /\ pc = "inputs"
  /\ steps > 0
  /\ \E c \in DOMAIN archive.conversations :
       /\ ~Has(world.conversations, c)
       /\ archive.conversations[c].status = "ended"
       /\ Len(archive.conversations[c].participants) = 1
       /\ archive.conversations[c].creator
            # archive.conversations[c].participants[1]

----------------------------------------------------------------------------
(* Claims about deadlines and the time of a step (ConvSpec, GameSpec, Spec) *)

\* An active conversation has a deadline, and a tick past it ends it
TimesOut(c) ==
  c.status = "active" =>
    /\ IsSome(c.inactivityTimeout)
    /\ \A now \in {Val(c.inactivityTimeout), Val(c.inactivityTimeout) + 1,
                   clock + MessageTimeout + 1} :
         now > Val(c.inactivityTimeout)
           => ConversationTick(c, now).status = "ended"

\* C31: every active conversation has an inactivity deadline armed, and the
\* first tick whose now is past the deadline sets its status to ended.
ActiveConversationTimesOut ==
  IsSome(conv) => TimesOut(Val(conv))

\* The same for the conversations of a World, which startConversation creates
ActiveInWorldTimesOut ==
  \A c \in DOMAIN world.conversations : TimesOut(world.conversations[c])

\* C32: a deadline armed for d milliseconds ahead is found elapsed by the
\* first engine step that runs once the d milliseconds have passed on the
\* clock that armed it: the speaking turn lapses, the conversation is ended,
\* the agent is woken up.
DeadlineFoundByNextStep ==
  [][steps' # steps =>
       /\ (IsSome(conv) /\ Val(conv).status = "active"
             /\ Elapsed(Val(conv).speakingUntil, clock))
            => Val(conv').speakingUntil = None
       /\ (IsSome(conv) /\ Val(conv).status = "active"
             /\ Elapsed(Val(conv).inactivityTimeout, clock))
            => Val(conv').status = "ended"
       /\ (IsSome(entity) /\ TheEntity.status = "sleeping"
             /\ IsSome(TheEntity.sleepUntil)
             /\ clock >= Val(TheEntity.sleepUntil))
            => Val(entity').lastWakeUp = clock]_vars

----------------------------------------------------------------------------
(* Claims about return values, scheduling and generations (Spec) *)

\* C33: the ok value written to a command's record is the value its own
\* handler returned (the outputs array holds that value alone), not a
\* value produced by other commands of the batch.
OwnResultReturned ==
  pc = "idle" =>
    \A k \in 1..Len(batch) :
      (k <= Len(results) /\ batch[k] <= Len(inputs) /\ HasResult(batch[k])
         /\ results[k].success)
        => Val(inputs[batch[k]].returnValue).value = <<Val(results[k].result)>>

\* C34: at most one tick invocation of the engine is outstanding, scheduled
\* or executing, whatever the interleaving of start, stop and tick.
OneTickOutstanding ==
  scheduled + (IF pc = "idle" THEN 0 ELSE 1) <= 1

----------------------------------------------------------------------------
(* Claims about AgentMemory.cleanupMemories (MemorySpec) *)

\* The rows of a table as a set
Rows(ms) == {ms[i] : i \in 1..Len(ms)}

\* C35: cleanupMemories deletes nothing when the owner has at most maxCount
\* memories; otherwise it deletes only memories of the owner that are among
\* the (count - maxCount) lowest by importance + ageInDays / 30 and have
\* importance < minImportanceToKeep, deletes the embedding of each deleted
\* memory and no other, and returns the number of memories deleted.
CleanupIsSafe ==
  \A k \in 1..Len(calls) :
    k = Len(calls) =>
      LET c       == calls[k]
          own     == Rows(AllMemories(c.before, c.agentId))
          count   == Cardinality(own)
          deleted == Rows(c.before.memories) \ Rows(memoryDb.memories)
          lower(m) == {x \in own : Score(x, MemoryNow) < Score(m, MemoryNow)}
      IN  /\ count <= c.maxMemories => deleted = {}
          /\ \A m \in deleted :
               /\ m \in own
               /\ Cardinality(lower(m)) < count - c.maxMemories
               /\ m.importance < c.minImportanceToKeep
          /\ Rows(memoryDb.memories) \subseteq Rows(c.before.memories)
          /\ c.before.embeddings \ memoryDb.embeddings
               = {m.embeddingId : m \in deleted}
          /\ c.returned = Cardinality(deleted)

\* A cleanup that deleted a memory and spared another memory of the low end
\* because of its importance, with a memory of another agent in the table
CleanupSparedImportant ==
  /\ Len(calls) = 1
  /\ calls[1].returned = 1
  /\ LET c   == calls[1]
         own == AllMemories(c.before, c.agentId)
     IN  /\ Len(own) - c.maxMemories = 2
         /\ Len(own) < Len(c.before.memories)
         /\ \E i \in 1..Len(own) :
              /\ own[i] \in Rows(memoryDb.memories)
              /\ SortedPlace(own, i, MemoryNow) <= 2
              /\ own[i].importance >= c.minImportanceToKeep

----------------------------------------------------------------------------
(* Claims about the start-conversation probability (MoodSpec) *)

\* C36: for an agent whose happiness, stress and trust in the peer lie in
\* [0, 100], the mood term of the probability lies between -20% and +20%
\* and the trust term between -15% and +15%.
TermsWithinRange ==
  \A k \in 1..Len(calls) :
    calls[k].op = "shouldStartConversation" =>
      /\ calls[k].moodTerm[1] >= -20000 /\ calls[k].moodTerm[1] <= 20000
      /\ calls[k].trustTerm[1] >= -15000 /\ calls[k].trustTerm[1] <= 15000

\* The trust term alone
TrustTermWithinRange ==
  \A k \in 1..Len(calls) :
    calls[k].op = "shouldStartConversation" =>
      /\ calls[k].trustTerm[1] >= -15000 /\ calls[k].trustTerm[1] <= 15000

----------------------------------------------------------------------------
(* Claims about the parties of a conversation (GameSpec, ConvSpec) *)

\* The conversationId of every live entity of w names a live conversation
\* that lists the entity as participant or invitee
NoDanglingConversationId(w) ==
  \A id \in (DOMAIN w.players) \cup (DOMAIN w.agents) :
    LET e == Participant(w, id)
    IN  IsSome(e.conversationId) =>
          /\ Has(w.conversations, Val(e.conversationId))
          /\ LET c == w.conversations[Val(e.conversationId)]
             IN  Includes(c.participants, id) \/ Includes(c.invited, id)

\* C37: at the end of every step no live entity holds a dangling
\* conversationId, whatever way its conversation ended.
NoDanglingAfterStep ==
  [][steps' # steps => NoDanglingConversationId(world')]_vars

\* C38: a leaveConversation issued for an id that is neither a participant
\* nor an invitee of a live conversation leaves the conversation's status
\* as it was.
OutsiderLeaveKeepsStatus ==
  pc = "inputs" =>
    \A cid \in LiveConvs : \A x \in Ids :
      (~Includes(Conv(cid).participants, x) /\ ~Includes(Conv(cid).invited, x)) =>
        LET r == Run(Context, LeaveConversationBy(x, cid))
        IN  r.st.w.conversations[cid].status = Conv(cid).status

----------------------------------------------------------------------------
(* Claims about the messages of a conversation (GameSpec) *)

\* The rows of the messages table written for conversation cid
MessagesOf(msgs, cid) == {k \in 1..Len(msgs) : msgs[k].conversationId = cid}

\* C39: after every command, for every conversation, live or archived,
\* numMessages is the number of rows of the messages table written for it.
NumMessagesCountsRows ==
  /\ \A cid \in DOMAIN world.conversations :
       world.conversations[cid].numMessages = Cardinality(MessagesOf(messages, cid))
  /\ \A cid \in DOMAIN archive.conversations :
       archive.conversations[cid].numMessages = Cardinality(MessagesOf(messages, cid))

----------------------------------------------------------------------------
(* Claims about the generation number (Spec) *)

\* C40: every iteration of the loop of Game.tick that applies a restart
\* command with success leaves generationNumber one above what it was
\* before the command.
RestartAddsOneGeneration ==
  [][(/\ pc = "inputs"
      /\ idx' = idx + 1
      /\ inputs[batch[idx + 1]].name = "restart"
      /\ results'[Len(results')].success)
       => engine'.generationNumber = engine.generationNumber + 1]_vars

====
